---- MODULE Spec2Model ----
(***************************************************************************)
(* Verification model of the stylr-free analysis pipeline:                 *)
(*   - the performance metrics client  (app/lib/performance.ts)            *)
(*   - the rule-based SEO analyzer     (app/lib/seo-analyzer.ts)           *)
(*   - the score aggregator            (app/lib/scoring.ts)                *)
(*   - the text-generation client      (app/lib/replicate.ts, utils.ts,    *)
(*                                      error-handler = unnamed/part_007)  *)
(* Each component has its own specification (SpecPerf, SpecSEO, ...) over  *)
(* the shared variable list; a component's actions leave the other         *)
(* components' variables unchanged.                                        *)
(***************************************************************************)
EXTENDS Integers, Sequences, FiniteSets, TLC

VARIABLES
    \* ---- performance client (fetchPerformanceMetrics) ----
    credential,   \* process.env.PAGESPEED_API_KEY: Undefined or a string (sequence of characters)
    perfPc,       \* position of fetchPerformanceMetrics: "start", "await", "done"
    pPc,          \* per strategy: "idle", "inflight", "backoff", "fulfilled", "rejected"
    retryCount,   \* per strategy: the retryCount argument of the running fetchPageSpeedMetrics call
    requests,     \* per strategy: number of fetchWithTimeout requests issued so far
    respLog,      \* per strategy: what each request was answered with, in order
    waits,        \* per strategy: the setTimeout delays (ms) slept before retries, in order
    pData,        \* per strategy: the value a fulfilled call resolved with (NoData otherwise)
    settleOrder,  \* the strategies in the order their promises settled
    perfResult    \* outcome of fetchPerformanceMetrics: [kind |-> "none" | "returned" | "threw", value]

perfVars == <<credential, perfPc, pPc, retryCount, requests, respLog, waits, pData, settleOrder, perfResult>>

VARIABLES
    \* ---- SEO analyzer (analyzeSEO) ----
    seoPc,        \* "input", "ready" (snapshot built), "analyzed", "again", "invalid"
    seoUrl,       \* the URL of the request (sequence of characters)
    snapshot,     \* the ScrapedProductData handed to analyzeSEO
    seoResult,    \* result of the first analyzeSEO call
    seoResult2    \* result of a second call on the same snapshot

seoVars == <<seoPc, seoUrl, snapshot, seoResult, seoResult2>>

VARIABLES
    \* ---- score aggregator (calculateOverallScore, estimatePotentialScore) ----
    scPc,         \* "input", "scored", "estimated"
    scIn,         \* the arguments: sub-scores, SEO checks, unoptimized image count
    overall,      \* the OverallScore returned by calculateOverallScore
    potential     \* the number returned by estimatePotentialScore

scoreVars == <<scPc, scIn, overall, potential>>

VARIABLES
    \* ---- text-generation client (callReplicateLLM) ----
    llmPc,        \* "start", "v1", "v2", "create", "poll", "backoff", "returned", "threw"
    llmToken,     \* process.env.REPLICATE_API_TOKEN is set
    llmMaxRetries,\* options.maxRetries
    attempt,      \* the loop variable of callReplicateLLM
    runs,         \* number of callReplicatePredictionAPI calls started
    creates,      \* number of prediction-create requests sent
    pollAttempts, \* the attempts counter of the polling loop of the current run
    pollReqs,     \* status requests sent in the current run
    lastError,    \* message of the error caught last (lastError)
    lastCause,    \* what raised it
    llmWaits,     \* backoff delays (ms) slept between runs, in order
    llmOut,       \* [text] returned, or [error] thrown, by callReplicateLLM
    verLog,       \* endpoints getModelVersion has queried in the current run, in order,
                  \* kept until the create request is answered
    infoAnswer,   \* what the model-info request was answered with, kept as long as verLog
    version       \* what getModelVersion returned; last read for the body of the create
                  \* request (line 119) and kept until that request is answered

llmVars == <<llmPc, llmToken, llmMaxRetries, attempt, runs, creates, pollAttempts, pollReqs,
             lastError, lastCause, llmWaits, llmOut, verLog, infoAnswer, version>>

verVars == <<verLog, infoAnswer, version>>

VARIABLES
    \* ---- JSON repair (parseJSONRobust) ----
    jsPc,         \* "obj", "text", "parsed"
    jsObj,        \* the object the remote model means to send
    jsText,       \* the response text handed to parseJSONRobust
    jsCorruption, \* "none", "comma" (trailing comma), "colon" (doubled colon)
    jsFenced,     \* the text is wrapped in a markdown code fence
    jsOut         \* what parseJSONRobust returned or that it threw

jsonVars == <<jsPc, jsObj, jsText, jsCorruption, jsFenced, jsOut>>

VARIABLES
    \* ---- error sanitizer (sanitizeError, createErrorResponse) ----
    erPc,         \* "raised", "logged", "responded"
    erRaw,        \* the message of the error that was raised
    erOut,        \* the SanitizedError returned by sanitizeError (via logError)
    erResp        \* the body returned by createErrorResponse

errVars == <<erPc, erRaw, erOut, erResp>>

VARIABLES
    enPc,        \* "idle", "called", "replied", "returned", "threw"
    enVersion,   \* which copy of enhanceContentWithLLM ran: "lib" or "part_001"
    enProduct,   \* the productData argument
    enReply,     \* the value parseJSONRobust returned for the remote reply
    enOut        \* the value enhanceContentWithLLM resolved with

enhVars == <<enPc, enVersion, enProduct, enReply, enOut>>

VARIABLES
    hPc,         \* position of POST: "received", "scraped", "waiting", "responded"
    hBody,       \* the url member of the request body
    hVariant,    \* which scrapeProductPage is linked: "hybrid" or "html"
    hExtracted,  \* what extractProductDataWithLLM resolved with
    scrapedData, \* the snapshot the handler works with
    hFallback,   \* TRUE when scrapedData is the handler's minimal fallback
    hSeo,        \* outcome of the analyzeSEO call
    hBranch,     \* state of the performance and enhancement promises
    hOrder,      \* the order in which the promises settled
    hResp        \* the response returned

handlerVars == <<hPc, hBody, hVariant, hExtracted, scrapedData, hFallback, hSeo, hBranch,
                 hOrder, hResp>>

VARIABLES
    \* ---- HTML scraper (scrapeTechnicalSEO) ----
    ldPc,        \* schema extraction: "off", "each", "done"
    ldBlocks,    \* the application/ld+json scripts of the page, in document order
    ldIdx,       \* index of the script the .each callback runs on next
    schema,      \* the schema variable of scrapeTechnicalSEO
    imPc,        \* image classification: "off", "found", "classified"
    imgEl,       \* the <img> element the .each callback was called with
    isProductImage \* what isLikelyProductImage returned for it

scrapeVars == <<ldPc, ldBlocks, ldIdx, schema, imPc, imgEl, isProductImage>>

vars == <<perfVars, seoVars, scoreVars, llmVars, jsonVars, errVars, enhVars, handlerVars, scrapeVars>>

\* The variables of the other components, left unchanged by a component's actions.
notPerf  == <<seoVars, scoreVars, llmVars, jsonVars, errVars, enhVars, handlerVars, scrapeVars>>
notSeo   == <<perfVars, scoreVars, llmVars, jsonVars, errVars, enhVars, handlerVars, scrapeVars>>
notScore == <<perfVars, seoVars, llmVars, jsonVars, errVars, enhVars, handlerVars, scrapeVars>>
notLlm   == <<perfVars, seoVars, scoreVars, jsonVars, errVars, enhVars, handlerVars, scrapeVars>>
notJson  == <<perfVars, seoVars, scoreVars, llmVars, errVars, enhVars, handlerVars, scrapeVars>>
notErr == <<perfVars, seoVars, scoreVars, llmVars, jsonVars, enhVars, handlerVars, scrapeVars>>
notEnh == <<perfVars, seoVars, scoreVars, llmVars, jsonVars, errVars, handlerVars, scrapeVars>>
notHandler == <<perfVars, seoVars, scoreVars, llmVars, jsonVars, errVars, enhVars, scrapeVars>>
notScrape == <<perfVars, seoVars, scoreVars, llmVars, jsonVars, errVars, enhVars, handlerVars>>

----------------------------------------------------------------------------
(* Generic helpers                                                          *)

\* JavaScript undefined / missing numeric field (all modelled numbers are >= 0).
Undefined == 0 - 1

\* x || d for numbers: undefined and 0 are falsy.
OrElse(x, d) == IF x = Undefined \/ x = 0 THEN d ELSE x

Max(a, b) == IF a >= b THEN a ELSE b
Min(a, b) == IF a <= b THEN a ELSE b

RECURSIVE Pow2(_)
Pow2(n) == IF n = 0 THEN 1 ELSE 2 * Pow2(n - 1)

\* String.prototype.startsWith on character sequences.
StartsWith(s, prefix) ==
    /\ Len(s) >= Len(prefix)
    /\ SubSeq(s, 1, Len(prefix)) = prefix

----------------------------------------------------------------------------
(* Performance client: data                                                 *)

Strategies == {"mobile", "desktop"}

\* Credential states: absent, empty string, malformed, well-formed.
KeyAbsent == <<"undefined">>
KeyGood   == <<"A", "I", "z", "a", "S", "y">>
KeyBad    == <<"G", "O", "C", "S", "P", "X">>
KeyShort  == <<"A", "I", "z">>
Credentials == {KeyAbsent, <<>>, KeyGood, KeyBad, KeyShort}

\* !pagespeedApiKey : undefined and the empty string are falsy.
KeyMissing(key) == key = KeyAbsent \/ key = <<>>

\* Mutant of KeyWellFormed: only checks that the key is non-empty.
KeyWellFormedAnyPrefix(key) == Len(key) > 0

\* pagespeedApiKey.startsWith('AIza')
KeyWellFormed(key) == StartsWith(key, <<"A", "I", "z", "a">>)

\* Mutant of IsRetryable: 404 is retried as well and 429 is not.
IsRetryableNotFound(status) == status \in {500, 502, 503, 504, 404}

\* [500, 502, 503, 504, 429].includes(response.status)
IsRetryable(status) == status \in {500, 502, 503, 504, 429}

\* const maxRetries = 2
maxRetriesPS == 2

\* Math.pow(2, retryCount) * 1000
RetryDelay(rc) == Pow2(rc) * 1000

\* details.items of an image audit: absent, an array of items, or a truthy
\* value that is not an array (an object), or an array holding a null entry.
NoAudit      == [kind |-> "noaudit", items |-> <<>>]   \* the audit itself is missing
NoItems      == [kind |-> "noitems", items |-> <<>>]   \* audit present, details.items missing
ArrItems(s)  == [kind |-> "array",  items |-> s]
ObjItems     == [kind |-> "object", items |-> <<>>]
NullItems    == [kind |-> "nullentry", items |-> <<>>]

\* Number of itemized images in the sample reports.
MaxItems == 2

Item(n) == [totalBytes |-> n * 150000]

RECURSIVE ItemSeq(_)
ItemSeq(n) == IF n = 0 THEN <<>> ELSE Append(ItemSeq(n - 1), Item(n))

\* lighthouse.audits of the sample reports.  present = FALSE models a report
\* without an audits object.
AuditsAbsent == [present |-> FALSE, fcp |-> Undefined, lcp |-> Undefined, srt |-> Undefined,
                 lt |-> Undefined, tbt |-> Undefined, si |-> Undefined,
                 opt |-> NoAudit, fmt |-> NoAudit]
AuditsEmpty  == [AuditsAbsent EXCEPT !.present = TRUE]
AuditsTimed(k) == [present |-> TRUE, fcp |-> 900 + k, lcp |-> 1800 + k, srt |-> 200 + k,
                   lt |-> Undefined, tbt |-> 300 + k, si |-> 1500 + k,
                   opt |-> NoItems, fmt |-> NoAudit]
AuditsSamples ==
    { AuditsAbsent, AuditsEmpty, AuditsTimed(1), AuditsTimed(2),
      [AuditsTimed(1) EXCEPT !.opt = ArrItems(ItemSeq(MaxItems))],
      [AuditsTimed(2) EXCEPT !.fmt = ArrItems(ItemSeq(1)), !.lt = 2500],
      [AuditsTimed(1) EXCEPT !.opt = ArrItems(<<>>)],
      [AuditsTimed(1) EXCEPT !.opt = ObjItems],
      [AuditsTimed(2) EXCEPT !.fmt = NullItems] }

\* categories.performance.score and categories.seo.score times 100
\* (Undefined = field missing).  The sample values keep the average of two
\* performance scores away from the 0.5 / 0.7 tier boundaries, where the
\* double-precision sum decides the tier.
PerfScores == {Undefined, 30, 90}
SeoScores  == {Undefined, 80}

Reports == [perf : PerfScores, seo : SeoScores, audits : AuditsSamples]

NoReport == [perf |-> Undefined, seo |-> Undefined, audits |-> AuditsAbsent]

\* What one request can be answered with.
StatusSamples == {404, 500, 503}
Responses ==
    {[kind |-> "abort",   status |-> 0, report |-> NoReport],    \* timer fired: AbortError
     [kind |-> "neterr",  status |-> 0, report |-> NoReport],    \* fetch rejected
     [kind |-> "notjson", status |-> 200, report |-> NoReport],  \* response.json() throws
     [kind |-> "nolh",    status |-> 200, report |-> NoReport]}  \* body without lighthouseResult
    \cup {[kind |-> "http", status |-> s, report |-> NoReport] : s \in StatusSamples}
    \cup {[kind |-> "ok", status |-> 200, report |-> r] : r \in Reports}

\* Tag recorded in respLog for a response.
RespTag(resp) == IF resp.kind = "http" THEN resp.status ELSE IF resp.kind = "ok" THEN 200 ELSE 0

NoData == [score |-> 0, fcp |-> 0, lcp |-> 0, ttfb |-> 0, loadTime |-> 0, speedIndex |-> 0,
           lighthouseResult |-> NoReport]

\* The value fetchPageSpeedMetrics resolves with for a report that has audits.
ExtractMetrics(lh) ==
    [score      |-> OrElse(lh.perf, 0),
     fcp        |-> OrElse(lh.audits.fcp, 0),
     lcp        |-> OrElse(lh.audits.lcp, 0),
     ttfb       |-> OrElse(lh.audits.srt, 0),
     loadTime   |-> OrElse(lh.audits.lt, OrElse(lh.audits.tbt, 0)),
     speedIndex |-> OrElse(lh.audits.si, 0),
     lighthouseResult |-> lh]

\* Mutant of getFallbackPerformanceMetrics: the mobile block repeats the
\* desktop numbers and the overall score is left at 0.
getFallbackDrifted ==
    [desktop |-> [score |-> 50, fcp |-> 2000, lcp |-> 3000, ttfb |-> 500,
                  loadTime |-> 4000, speedIndex |-> 3500],
     mobile  |-> [score |-> 50, fcp |-> 2000, lcp |-> 3000, ttfb |-> 500,
                  loadTime |-> 4000, speedIndex |-> 3500],
     images  |-> [totalSize |-> 1000000, unoptimizedCount |-> 2, totalCount |-> 5,
                  optimizationOpportunities |-> <<>>, formatOptimization |-> <<>>],
     seo     |-> [score |-> 0],
     overallScore |-> 0]

\* getFallbackPerformanceMetrics()
getFallbackPerformanceMetrics ==
    [desktop |-> [score |-> 50, fcp |-> 2000, lcp |-> 3000, ttfb |-> 500,
                  loadTime |-> 4000, speedIndex |-> 3500],
     mobile  |-> [score |-> 50, fcp |-> 2500, lcp |-> 4000, ttfb |-> 600,
                  loadTime |-> 5000, speedIndex |-> 4500],
     images  |-> [totalSize |-> 1000000, unoptimizedCount |-> 2, totalCount |-> 5,
                  optimizationOpportunities |-> <<>>, formatOptimization |-> <<>>],
     seo     |-> [score |-> 0],
     overallScore |-> 50]

RECURSIVE SumBytes(_)
SumBytes(items) ==
    IF items = <<>> THEN 0 ELSE Head(items).totalBytes + SumBytes(Tail(items))

\* mobileAudits[name] || desktopAudits[name]
PickAudit(m, d) == IF m.kind # "noaudit" THEN m ELSE d

\* items.forEach(...) raises a TypeError when items is truthy but not an
\* array, and item.url raises one when an entry is null.
ForEachThrows(audit) == audit.kind \in {"object", "nullentry"}

\* The list built from an audit's items (empty when there are none).
Collected(audit) == IF audit.kind = "array" THEN audit.items ELSE <<>>

\* calculateImageMetrics(mobileLighthouse, desktopLighthouse):
\* [threw |-> TRUE] when the function raises, else the images block.
calculateImageMetrics(mobileLh, desktopLh) ==
    LET optAudit == PickAudit(mobileLh.audits.opt, desktopLh.audits.opt)
        fmtAudit == PickAudit(mobileLh.audits.fmt, desktopLh.audits.fmt)
        opps     == Collected(optAudit)
        fmts     == Collected(fmtAudit)
        totalSize        == SumBytes(opps)
        unoptimizedCount == Len(opps)
        totalCount       == unoptimizedCount + (IF Len(opps) > 0 THEN 0 ELSE 3)
        scoreSum == OrElse(mobileLh.perf, 0) + OrElse(desktopLh.perf, 0)
        Est(size, unopt, total) ==
            [totalSize |-> size, unoptimizedCount |-> unopt, totalCount |-> total,
             optimizationOpportunities |-> <<>>, formatOptimization |-> <<>>]
    IN  IF ForEachThrows(optAudit) \/ ForEachThrows(fmtAudit)
        THEN [threw |-> TRUE, images |-> Est(0, 0, 0)]
        ELSE IF Len(opps) = 0 /\ Len(fmts) = 0
        THEN [threw |-> FALSE,
              images |-> IF scoreSum < 100 THEN Est(3000000, 5, 8)
                         ELSE IF scoreSum < 140 THEN Est(1500000, 3, 5)
                         ELSE Est(500000, 0, 3)]
        ELSE [threw |-> FALSE,
              images |-> [totalSize |-> totalSize, unoptimizedCount |-> unoptimizedCount,
                          totalCount |-> Max(totalCount, unoptimizedCount),
                          optimizationOpportunities |-> opps,
                          formatOptimization |-> fmts]]

\* Mutant of WeightedPerf: the two weights are exchanged.
WeightedPerfSwapped(m, d) == (4 * m + 6 * d + 5) \div 10

\* Math.round(mobile * 0.6 + desktop * 0.4) on integer scores (6m + 4d is
\* even, so the sum is never at a rounding tie).
WeightedPerf(m, d) == (6 * m + 4 * d + 5) \div 10

Block(data) == [score |-> data.score, fcp |-> data.fcp, lcp |-> data.lcp,
                ttfb |-> data.ttfb, loadTime |-> data.loadTime,
                speedIndex |-> data.speedIndex]

NoResult    == [kind |-> "none",     value |-> getFallbackPerformanceMetrics]
Returned(v) == [kind |-> "returned", value |-> v]
Threw       == [kind |-> "threw",    value |-> getFallbackPerformanceMetrics]

\* Lines 120-199 of fetchPerformanceMetrics: what the function does once
\* both promises have settled.  mOk / dOk: the promise was fulfilled.
CombineProfiles(mOk, mData, dOk, dData) ==
    IF ~mOk /\ ~dOk
    THEN Returned(getFallbackPerformanceMetrics)
    ELSE LET mobileData  == IF mOk THEN mData ELSE dData
             desktopData == IF dOk THEN dData ELSE mData
             seoScore == IF mobileData.lighthouseResult.seo # Undefined
                         THEN mobileData.lighthouseResult.seo
                         ELSE IF desktopData.lighthouseResult.seo # Undefined
                         THEN desktopData.lighthouseResult.seo
                         ELSE 0
             img == calculateImageMetrics(mobileData.lighthouseResult,
                                          desktopData.lighthouseResult)
         IN  IF img.threw
             THEN Threw
             ELSE Returned([desktop |-> Block(desktopData),
                            mobile  |-> Block(mobileData),
                            images  |-> img.images,
                            seo     |-> [score |-> seoScore],
                            overallScore |-> WeightedPerf(mobileData.score, desktopData.score)])

----------------------------------------------------------------------------
(* SEO analyzer: data                                                       *)

\* A string as analyzeSEO sees it: its length and the length of its trim().
Text(n)  == [len |-> n, trim |-> n]
Blank(n) == [len |-> n, trim |-> 0]

\* Upper bound on the number of feature bullets in a snapshot.
MaxFeatures == 5

LowerChars == {"a", "b", "c", "d", "e", "f", "g", "h", "i", "j", "k", "l", "m",
               "n", "o", "p", "q", "r", "s", "t", "u", "v", "w", "x", "y", "z"}
UpperChars == {"A", "B", "C", "D", "E", "F", "G", "H", "I", "J", "K", "L", "M",
               "N", "O", "P", "Q", "R", "S", "T", "U", "V", "W", "X", "Y", "Z"}
DigitChars == {"0", "1", "2", "3", "4", "5", "6", "7", "8", "9"}

\* String.prototype.includes for a single character.
IncludesChar(str, c) == \E i \in 1..Len(str) : str[i] = c

\* Index of the first character of str at or after position from that is in
\* the set stops; Len(str) + 1 when there is none.
RECURSIVE FirstOf(_, _, _)
FirstOf(str, from, stops) ==
    IF from > Len(str) THEN Len(str) + 1
    ELSE IF str[from] \in stops THEN from
    ELSE FirstOf(str, from + 1, stops)

HttpPrefix  == <<"h", "t", "t", "p", ":", "/", "/">>
HttpsPrefix == <<"h", "t", "t", "p", "s", ":", "/", "/">>

\* new URL(url): fails (TypeError) unless the text is an absolute URL; for an
\* http(s) URL the pathname is the part from the first "/" after the host up
\* to the query or fragment, "/" when that part is empty.
ParseURL(url) ==
    LET start == IF StartsWith(url, HttpsPrefix) THEN Len(HttpsPrefix) + 1
                 ELSE IF StartsWith(url, HttpPrefix) THEN Len(HttpPrefix) + 1
                 ELSE 0
        hostEnd == FirstOf(url, start, {"/", "?", "#"})
        pathEnd == FirstOf(url, hostEnd, {"?", "#"})
        path    == SubSeq(url, hostEnd, pathEnd - 1)
    IN  IF start = 0 \/ hostEnd = start
        THEN [ok |-> FALSE, pathname |-> <<>>]
        ELSE [ok |-> TRUE, pathname |-> IF path = <<>> THEN <<"/">> ELSE path]

\* /^\/[a-z0-9\-/]+$/i.test(urlPath)
MatchesCleanPath(urlPath) ==
    /\ Len(urlPath) >= 2
    /\ urlPath[1] = "/"
    /\ \A i \in 2..Len(urlPath) :
          urlPath[i] \in LowerChars \cup UpperChars \cup DigitChars \cup {"-", "/"}

\* Sample request URLs: valid ones, and texts that are not absolute URLs.
UrlWidget      == <<"h", "t", "t", "p", "s", ":", "/", "/", "s", ".", "i", "o", "/", "p", "r", "o", "d", "u", "c", "t", "s", "/", "w", "i", "d", "g", "e", "t">>
UrlWidgetQuery == <<"h", "t", "t", "p", "s", ":", "/", "/", "s", ".", "i", "o", "/", "p", "r", "o", "d", "u", "c", "t", "s", "/", "w", "i", "d", "g", "e", "t", "?", "r", "e", "f", "=", "1">>
UrlHttpDirty   == <<"h", "t", "t", "p", ":", "/", "/", "s", ".", "i", "o", "/", "p", "/", "i", "t", "e", "m", "_", "1", ".", "h", "t", "m", "l", "?", "i", "d", "=", "7">>
UrlHttpClean   == <<"h", "t", "t", "p", ":", "/", "/", "s", ".", "i", "o", "/", "s", "h", "o", "p", "/", "m", "u", "g", "-", "2">>
UrlMixedCase   == <<"h", "t", "t", "p", "s", ":", "/", "/", "s", ".", "i", "o", "/", "P", "r", "o", "d", "u", "c", "t", "s", "/", "B", "l", "u", "e", "-", "W", "i", "d", "g", "e", "t">>
UrlRoot        == <<"h", "t", "t", "p", "s", ":", "/", "/", "s", ".", "i", "o">>
UrlRelative    == <<"/", "p", "r", "o", "d", "u", "c", "t", "s", "/", "w", "i", "d", "g", "e", "t">>
UrlInputs == {UrlWidget, UrlWidgetQuery, UrlHttpDirty, UrlHttpClean, UrlMixedCase,
              UrlRoot, UrlRelative, <<>>}

MetaTitles       == {Text(0), Blank(3), Text(29), Text(30), Text(45), Text(60), Text(61)}
MetaDescriptions == {Text(0), Text(119), Text(120), Text(140), Text(160), Text(161)}
H1s              == {[h1 |-> Text(0), h1Count |-> 0], [h1 |-> Blank(2), h1Count |-> 1],
                     [h1 |-> Text(12), h1Count |-> 1], [h1 |-> Text(12), h1Count |-> 2]}
Schemas          == {"null", "Product"}
Descriptions     == {Text(0), Blank(4), Text(199), Text(200), Text(500), Text(600)}

Snapshots(url) ==
    { [metaTitle |-> t, metaDescription |-> md, h1 |-> h.h1, h1Count |-> h.h1Count,
       schema |-> sc, url |-> url, description |-> d, features |-> f] :
        t \in MetaTitles, md \in MetaDescriptions, h \in H1s, sc \in Schemas,
        d \in Descriptions, f \in 0..MaxFeatures }

NoSnapshot == [metaTitle |-> Text(0), metaDescription |-> Text(0), h1 |-> Text(0), h1Count |-> 0,
               schema |-> "null", url |-> <<>>, description |-> Text(0), features |-> 0]

Check(name, status, message, priority, score) ==
    [name |-> name, status |-> status, message |-> message, priority |-> priority, score |-> score]

\* The two accumulators of analyzeSEO: the checks pushed so far and totalScore.
Acc0 == [checks |-> <<>>, totalScore |-> 0, threw |-> FALSE]

Push(acc, check, points) ==
    [acc EXCEPT !.checks = Append(@, check), !.totalScore = @ + points]

\* 1. Meta Title Check (lines 25-62)
MetaTitleCheck(acc, d) ==
    IF d.metaTitle.len = 0 \/ d.metaTitle.trim = 0
    THEN Push(acc, Check("Meta Title", "fail", <<"Meta title is missing">>, "critical", 0), 0)
    ELSE IF d.metaTitle.len < 30
    THEN Push(acc, Check("Meta Title", "warning",
                         <<"Meta title is too short", d.metaTitle.len>>, "high", 5), 5)
    ELSE IF d.metaTitle.len > 60
    THEN Push(acc, Check("Meta Title", "warning",
                         <<"Meta title is too long", d.metaTitle.len>>, "medium", 7), 7)
    ELSE Push(acc, Check("Meta Title", "pass",
                         <<"Meta title is optimal", d.metaTitle.len>>, "low", 10), 10)

\* 2. Meta Description Check (lines 64-101)
MetaDescriptionCheck(acc, d) ==
    IF d.metaDescription.len = 0 \/ d.metaDescription.trim = 0
    THEN Push(acc, Check("Meta Description", "fail",
                         <<"Meta description is missing">>, "critical", 0), 0)
    ELSE IF d.metaDescription.len < 120
    THEN Push(acc, Check("Meta Description", "warning",
                         <<"Meta description is too short", d.metaDescription.len>>, "high", 5), 5)
    ELSE IF d.metaDescription.len > 160
    THEN Push(acc, Check("Meta Description", "warning",
                         <<"Meta description may be truncated", d.metaDescription.len>>,
                         "medium", 7), 7)
    ELSE Push(acc, Check("Meta Description", "pass",
                         <<"Meta description is optimal", d.metaDescription.len>>, "low", 10), 10)

\* Mutant of H1Check: the missing-H1 branch records nothing.
H1CheckNoPushWhenMissing(acc, d) ==
    IF d.h1.len = 0 \/ d.h1.trim = 0
    THEN acc
    ELSE IF d.h1Count > 1
    THEN Push(acc, Check("H1 Tag", "warning",
                         <<"Multiple H1 tags found", d.h1Count>>, "high", 5), 5)
    ELSE Push(acc, Check("H1 Tag", "pass",
                         <<"Single, well-structured H1 tag found">>, "low", 10), 10)

\* 3. H1 Tag Check (lines 103-130)
H1Check(acc, d) ==
    IF d.h1.len = 0 \/ d.h1.trim = 0
    THEN Push(acc, Check("H1 Tag", "fail", <<"H1 tag is missing">>, "critical", 0), 0)
    ELSE IF d.h1Count > 1
    THEN Push(acc, Check("H1 Tag", "warning",
                         <<"Multiple H1 tags found", d.h1Count>>, "high", 5), 5)
    ELSE Push(acc, Check("H1 Tag", "pass",
                         <<"Single, well-structured H1 tag found">>, "low", 10), 10)

\* 4. Product Schema Markup (lines 132-150)
SchemaCheck(acc, d) ==
    IF d.schema = "null"
    THEN Push(acc, Check("Product Schema", "fail",
                         <<"Product schema markup not detected (High priority fix!)">>,
                         "critical", 0), 0)
    ELSE Push(acc, Check("Product Schema", "pass",
                         <<"Product schema markup detected">>, "low", 15), 15)

\* 5. HTTPS Check (lines 152-171)
HttpsCheck(acc, d) ==
    IF ~StartsWith(d.url, HttpsPrefix)
    THEN Push(acc, Check("HTTPS", "fail", <<"Page is not using HTTPS">>, "critical", 0), 0)
    ELSE Push(acc, Check("HTTPS", "pass", <<"HTTPS enabled and valid">>, "low", 10), 10)

\* 6. URL Structure (lines 173-194); new URL(...) raises on an unparsable url.
UrlStructureCheck(acc, d) ==
    LET parsed == ParseURL(d.url)
        isCleanURL == MatchesCleanPath(parsed.pathname) /\ ~IncludesChar(parsed.pathname, "?")
    IN  IF ~parsed.ok
        THEN [acc EXCEPT !.threw = TRUE]
        ELSE IF ~isCleanURL
        THEN Push(acc, Check("URL Structure", "warning",
                             <<"URL contains query parameters or special characters">>,
                             "medium", 5), 5)
        ELSE Push(acc, Check("URL Structure", "pass",
                             <<"Clean, descriptive URL structure">>, "low", 10), 10)

\* scrapeTechnicalSEO, lines 333-336 of html-scraper.ts: the urlStructure field.
urlStructure(url) ==
    LET urlPath == ParseURL(url).pathname
        isCleanURL == MatchesCleanPath(urlPath) /\ ~IncludesChar(urlPath, "?")
    IN  IF isCleanURL THEN "clean" ELSE "needs-improvement"

\* 7. Content Length (lines 196-235)
ContentLengthCheck(acc, d) ==
    LET descriptionLength == IF d.description.len = 0 THEN 0 ELSE d.description.trim
    IN  IF descriptionLength = 0
        THEN Push(acc, Check("Content Length", "fail",
                             <<"Product description is missing or could not be extracted">>,
                             "critical", 0), 0)
        ELSE IF descriptionLength < 200
        THEN Push(acc, Check("Content Length", "warning",
                             <<"Product description is too short", descriptionLength>>,
                             "high", 5), 5)
        ELSE IF descriptionLength < 500
        THEN Push(acc, Check("Content Length", "pass",
                             <<"Product description length is adequate", descriptionLength>>,
                             "low", 10), 10)
        ELSE Push(acc, Check("Content Length", "pass",
                             <<"Product description is comprehensive", descriptionLength>>,
                             "low", 10), 10)

\* 8. Features/Bullet Points (lines 237-265)
KeyFeaturesCheck(acc, d) ==
    IF d.features = 0
    THEN Push(acc, Check("Key Features", "warning",
                         <<"No key features or bullet points found">>, "high", 3), 3)
    ELSE IF d.features < 3
    THEN Push(acc, Check("Key Features", "warning",
                         <<"Only n feature(s) found", d.features>>, "medium", 6), 6)
    ELSE Push(acc, Check("Key Features", "pass",
                         <<"n key features found", d.features>>, "low", 10), 10)

\* const maxPossibleScore = 85
maxPossibleScore == 85

\* Math.min(Math.max(0, Math.round(totalScore / 85 * 100)), 100); the
\* quotient is never at a rounding tie (200 * t = 85 * odd has no solution).
NormalizeScore(totalScore) ==
    Min(Max(0, (200 * totalScore + maxPossibleScore) \div (2 * maxPossibleScore)), 100)

\* checks.filter(c => c.priority === p && c.status !== 'pass')
RECURSIVE Issues(_, _)
Issues(checks, p) ==
    IF checks = <<>> THEN <<>>
    ELSE IF Head(checks).priority = p /\ Head(checks).status # "pass"
         THEN <<Head(checks)>> \o Issues(Tail(checks), p)
         ELSE Issues(Tail(checks), p)

Labelled(label, issues) == [i \in 1..Len(issues) |-> <<label, issues[i].message>>]

\* Mutant of Recommendations: the high-priority messages come first.
RecommendationsHighFirst(checks) ==
    Labelled("High", Issues(checks, "high")) \o Labelled("Critical", Issues(checks, "critical"))

\* Lines 272-282: critical messages first, then the high-priority ones.
Recommendations(checks) ==
    Labelled("Critical", Issues(checks, "critical")) \o Labelled("High", Issues(checks, "high"))

\* The eight checks in source order; a raised error skips everything after it.
RunChecks(d) ==
    LET a1 == MetaTitleCheck(Acc0, d)
        a2 == MetaDescriptionCheck(a1, d)
        a3 == H1Check(a2, d)
        a4 == SchemaCheck(a3, d)
        a5 == HttpsCheck(a4, d)
        a6 == UrlStructureCheck(a5, d)
        a7 == ContentLengthCheck(a6, d)
    IN  IF a6.threw THEN a6 ELSE KeyFeaturesCheck(a7, d)

\* analyzeSEO(scrapedData); raw is the local totalScore at line 269.
analyzeSEO(d) ==
    LET acc == RunChecks(d)
    IN  IF acc.threw
        THEN [threw |-> TRUE, score |-> 0, checks |-> <<>>, recommendations |-> <<>>, raw |-> 0]
        ELSE [threw |-> FALSE,
              score |-> NormalizeScore(acc.totalScore),
              checks |-> acc.checks,
              recommendations |-> Recommendations(acc.checks),
              raw |-> acc.totalScore]

NoAnalysis == [threw |-> FALSE, score |-> 0, checks |-> <<>>, recommendations |-> <<>>, raw |-> 0]

----------------------------------------------------------------------------
(* SEO analyzer: actions                                                    *)

SeoInit ==
    /\ seoPc = "input"
    /\ seoUrl \in UrlInputs
    /\ snapshot = NoSnapshot
    /\ seoResult = NoAnalysis
    /\ seoResult2 = NoAnalysis

SeoIdle ==
    /\ seoPc = "off"
    /\ seoUrl = <<>>
    /\ snapshot = NoSnapshot
    /\ seoResult = NoAnalysis
    /\ seoResult2 = NoAnalysis

\* A text that is not an absolute http(s) URL never yields a snapshot: the
\* handler answers 400 (isValidProductURL) and the page fetch would fail.
SeoRejectUrl ==
    /\ seoPc = "input"
    /\ ~ParseURL(seoUrl).ok
    /\ seoPc' = "invalid"
    /\ UNCHANGED <<seoUrl, snapshot, seoResult, seoResult2>>
    /\ UNCHANGED notSeo

\* A snapshot of the validated URL is built; its other fields are arbitrary.
SeoBuildSnapshot ==
    /\ seoPc = "input"
    /\ ParseURL(seoUrl).ok
    /\ \E d \in Snapshots(seoUrl) : snapshot' = d
    /\ seoPc' = "ready"
    /\ UNCHANGED <<seoUrl, seoResult, seoResult2>>
    /\ UNCHANGED notSeo

SeoAnalyze ==
    /\ seoPc = "ready"
    /\ seoResult' = analyzeSEO(snapshot)
    /\ seoPc' = "analyzed"
    /\ UNCHANGED <<seoUrl, snapshot, seoResult2>>
    /\ UNCHANGED notSeo

SeoAnalyzeAgain ==
    /\ seoPc = "analyzed"
    /\ seoResult2' = analyzeSEO(snapshot)
    /\ seoPc' = "again"
    /\ UNCHANGED <<seoUrl, snapshot, seoResult>>
    /\ UNCHANGED notSeo

NextSEO == SeoRejectUrl \/ SeoBuildSnapshot \/ SeoAnalyze \/ SeoAnalyzeAgain

----------------------------------------------------------------------------
(* Score aggregator                                                         *)

\* Sub-score arguments: Undefined stands for a missing or NaN value, the
\* others are numbers below, inside and above the 0..100 range.
ScoreInputs == {Undefined, 0 - 5, 0, 50, 75, 84, 85, 100, 130}

\* Largest unoptimized-image count among the sample arguments.
MaxUnoptimized == 6

UnoptimizedInputs == {Undefined, 0, 3, MaxUnoptimized}

SnapshotAllPass ==
    [metaTitle |-> Text(45), metaDescription |-> Text(140), h1 |-> Text(12), h1Count |-> 1,
     schema |-> "Product", url |-> UrlWidget, description |-> Text(600), features |-> 5]
SnapshotAllFail ==
    [metaTitle |-> Text(0), metaDescription |-> Text(0), h1 |-> Text(0), h1Count |-> 0,
     schema |-> "null", url |-> UrlHttpDirty, description |-> Text(0), features |-> 0]
SnapshotMixed ==
    [metaTitle |-> Text(29), metaDescription |-> Text(161), h1 |-> Text(12), h1Count |-> 2,
     schema |-> "null", url |-> UrlWidgetQuery, description |-> Text(199), features |-> 2]

\* seoAnalysis.checks arguments: the handler's empty fallback list and the
\* check lists analyzeSEO produces for three snapshots.
ChecksInputs == {<<>>, analyzeSEO(SnapshotAllPass).checks, analyzeSEO(SnapshotAllFail).checks,
                 analyzeSEO(SnapshotMixed).checks}

\* Math.max(0, Math.min(100, x || 0))
Clamp100(x) == Max(0, Min(100, OrElse(x, 0)))

\* Mutant of WeightedSum100: the content and SEO weights are exchanged.
WeightedSumSwapped(c, s, p, m) == 30 * c + 35 * s + 20 * p + 15 * m

\* content * 0.35 + seo * 0.30 + performance * 0.20 + mobile * 0.15, in hundredths.
WeightedSum100(c, s, p, m) == 35 * c + 30 * s + 20 * p + 15 * m

\* Math.round(weightedSum).  The weights have no exact binary representation:
\* away from a tie the double sum rounds like the exact sum, but at an exact
\* tie x.5 it lands on either side (0,0,1,62 gives 9.499999999999998 and
\* rounds to 9; 0,0,0,10 gives 1.5 and rounds to 2), so both neighbours are
\* possible results there.
RoundedTotals(w100) ==
    IF w100 % 100 = 50
    THEN {w100 \div 100, w100 \div 100 + 1}
    ELSE {(w100 + 50) \div 100}

ScoreLabel(total) ==
    IF total >= 90 THEN "Excellent"
    ELSE IF total >= 75 THEN "Good"
    ELSE IF total >= 50 THEN "Fair"
    ELSE "Poor"

ScoreColor(total) ==
    IF total >= 90 THEN "green"
    ELSE IF total >= 75 THEN "yellow"
    ELSE IF total >= 50 THEN "orange"
    ELSE "red"

\* The OverallScore calculateOverallScore returns when Math.round yields total.
OverallScoreOf(in, total) ==
    [total |-> total,
     breakdown |-> [content |-> Clamp100(in.content), seo |-> Clamp100(in.seo),
                    performance |-> Clamp100(in.performance), mobile |-> Clamp100(in.mobile)],
     label |-> ScoreLabel(total),
     color |-> ScoreColor(total)]

\* The totals calculateOverallScore can return for the arguments in.
TotalsOf(in) ==
    RoundedTotals(WeightedSum100(Clamp100(in.content), Clamp100(in.seo),
                                 Clamp100(in.performance), Clamp100(in.mobile)))

\* Mutant of estimatePotentialScore: high-priority issues count 5 like the
\* critical ones, and the image uplift is not capped.
estimatePotentialFlat(currentScore, checks, unoptimized) ==
    LET unoptimizedCount == OrElse(unoptimized, 0)
    IN  Min(Max(0, currentScore.total
                   + Len(Issues(checks, "critical")) * 5
                   + Len(Issues(checks, "high")) * 5
                   + (IF unoptimizedCount > 0 THEN unoptimizedCount * 2 ELSE 0)
                   + (IF currentScore.breakdown.content < 85 THEN 12 ELSE 0)), 100)

\* Mutant of estimatePotentialScore: the upper clamp is missing.
estimatePotentialUnclamped(currentScore, checks, unoptimized) ==
    LET unoptimizedCount == OrElse(unoptimized, 0)
    IN  Max(0, currentScore.total
               + Len(Issues(checks, "critical")) * 5
               + Len(Issues(checks, "high")) * 3
               + (IF unoptimizedCount > 0 THEN Min(unoptimizedCount * 2, 10) ELSE 0)
               + (IF currentScore.breakdown.content < 85 THEN 12 ELSE 0))

\* estimatePotentialScore(currentScore, seoAnalysis, performanceMetrics)
estimatePotentialScore(currentScore, checks, unoptimized) ==
    LET criticalSEOIssues == Len(Issues(checks, "critical"))
        highSEOIssues     == Len(Issues(checks, "high"))
        unoptimizedCount  == OrElse(unoptimized, 0)
        potentialImprovement ==
              criticalSEOIssues * 5
            + highSEOIssues * 3
            + (IF unoptimizedCount > 0 THEN Min(unoptimizedCount * 2, 10) ELSE 0)
            + (IF currentScore.breakdown.content < 85 THEN 12 ELSE 0)
    IN  Min(Max(0, currentScore.total + potentialImprovement), 100)

NoOverall == [total |-> 0,
              breakdown |-> [content |-> 0, seo |-> 0, performance |-> 0, mobile |-> 0],
              label |-> "Poor", color |-> "red"]

NoScoreInput == [content |-> 0, seo |-> 0, performance |-> 0, mobile |-> 0,
                 checks |-> <<>>, unoptimized |-> 0]

ScoreInit ==
    /\ scPc = "input"
    /\ scIn \in [content : ScoreInputs, seo : ScoreInputs, performance : ScoreInputs,
                 mobile : ScoreInputs, checks : ChecksInputs, unoptimized : UnoptimizedInputs]
    /\ overall = NoOverall
    /\ potential = 0

ScoreIdle ==
    /\ scPc = "off"
    /\ scIn = NoScoreInput
    /\ overall = NoOverall
    /\ potential = 0

\* calculateOverallScore(seoAnalysis, performanceMetrics, contentEnhancement)
ScoreCalculate ==
    /\ scPc = "input"
    /\ \E total \in TotalsOf(scIn) : overall' = OverallScoreOf(scIn, total)
    /\ scPc' = "scored"
    /\ UNCHANGED <<scIn, potential>>
    /\ UNCHANGED notScore

\* estimatePotentialScore applied to the score just calculated
ScoreEstimate ==
    /\ scPc = "scored"
    /\ potential' = estimatePotentialScore(overall, scIn.checks, scIn.unoptimized)
    /\ scPc' = "estimated"
    /\ UNCHANGED <<scIn, overall>>
    /\ UNCHANGED notScore

NextScore == ScoreCalculate \/ ScoreEstimate

----------------------------------------------------------------------------
(* Text-generation client: error messages and retry policy                  *)

UpperSeq == <<"A", "B", "C", "D", "E", "F", "G", "H", "I", "J", "K", "L", "M",
              "N", "O", "P", "Q", "R", "S", "T", "U", "V", "W", "X", "Y", "Z">>
LowerSeq == <<"a", "b", "c", "d", "e", "f", "g", "h", "i", "j", "k", "l", "m",
              "n", "o", "p", "q", "r", "s", "t", "u", "v", "w", "x", "y", "z">>

ToLowerChar(c) ==
    IF \E i \in 1..26 : UpperSeq[i] = c
    THEN LowerSeq[CHOOSE i \in 1..26 : UpperSeq[i] = c]
    ELSE c

\* String.prototype.toLowerCase
ToLower(str) == [i \in 1..Len(str) |-> ToLowerChar(str[i])]

\* String.prototype.includes
Includes(str, needle) ==
    \E i \in 1..(Len(str) - Len(needle) + 1) : SubSeq(str, i, i + Len(needle) - 1) = needle

MsgRequestTimedOut ==
    <<"R", "e", "q", "u", "e", "s", "t", " ", "t", "i", "m", "e", "d", " ", "o", "u",
      "t", ".", " ", "T", "h", "e", " ", "p", "a", "g", "e", " ", "m", "a", "y", " ",
      "b", "e", " ", "t", "o", "o", " ", "s", "l", "o", "w", " ", "t", "o", " ", "a",
      "n", "a", "l", "y", "z", "e", ".">>
MsgPredictionTimedOut ==
    <<"P", "r", "e", "d", "i", "c", "t", "i", "o", "n", " ", "t", "i", "m", "e", "d",
      " ", "o", "u", "t", " ", "a", "f", "t", "e", "r", " ", "2", " ", "m", "i", "n",
      "u", "t", "e", "s">>
MsgNoVersion ==
    <<"F", "a", "i", "l", "e", "d", " ", "t", "o", " ", "g", "e", "t", " ", "m", "o",
      "d", "e", "l", " ", "v", "e", "r", "s", "i", "o", "n", ".", " ", "S", "e", "r",
      "v", "i", "c", "e", " ", "c", "o", "n", "f", "i", "g", "u", "r", "a", "t", "i",
      "o", "n", " ", "e", "r", "r", "o", "r", ".">>
MsgNoToken ==
    <<"S", "e", "r", "v", "i", "c", "e", " ", "a", "u", "t", "h", "e", "n", "t", "i",
      "c", "a", "t", "i", "o", "n", " ", "n", "o", "t", " ", "c", "o", "n", "f", "i",
      "g", "u", "r", "e", "d">>
MsgNoPredictionId ==
    <<"F", "a", "i", "l", "e", "d", " ", "t", "o", " ", "g", "e", "t", " ", "p", "r",
      "e", "d", "i", "c", "t", "i", "o", "n", " ", "I", "D", " ", "f", "r", "o", "m",
      " ", "s", "e", "r", "v", "i", "c", "e">>
MsgCanceled ==
    <<"P", "r", "e", "d", "i", "c", "t", "i", "o", "n", " ", "w", "a", "s", " ", "c",
      "a", "n", "c", "e", "l", "e", "d">>
MsgCreatePrefix ==
    <<"F", "a", "i", "l", "e", "d", " ", "t", "o", " ", "c", "r", "e", "a", "t", "e",
      " ", "p", "r", "e", "d", "i", "c", "t", "i", "o", "n", ":", " ">>
MsgStatusPrefix ==
    <<"F", "a", "i", "l", "e", "d", " ", "t", "o", " ", "c", "h", "e", "c", "k", " ",
      "p", "r", "e", "d", "i", "c", "t", "i", "o", "n", " ", "s", "t", "a", "t", "u",
      "s", ":", " ">>
MsgFailedPrefix ==
    <<"P", "r", "e", "d", "i", "c", "t", "i", "o", "n", " ", "f", "a", "i", "l", "e",
      "d", ":", " ">>
MsgCallFailedPrefix ==
    <<"A", "I", " ", "s", "e", "r", "v", "i", "c", "e", " ", "c", "a", "l", "l", " ",
      "f", "a", "i", "l", "e", "d", ":", " ">>

\* Texts the remote side or the runtime supplies: the body of a non-OK create
\* answer, the statusText of a non-OK status answer, the error field of a
\* failed job, and the message of a rejected fetch.
CreateErrorTexts == {<<"R", "a", "t", "e", " ", "l", "i", "m", "i", "t", " ", "e", "x", "c", "e", "e", "d", "e", "d">>,
                     <<"5", "0", "0", " ", "I", "n", "t", "e", "r", "n", "a", "l", " ", "S", "e", "r", "v", "e", "r", " ", "E", "r", "r", "o", "r">>,
                     <<"I", "n", "v", "a", "l", "i", "d", " ", "v", "e", "r", "s", "i", "o", "n">>}
StatusTexts      == {<<"G", "a", "t", "e", "w", "a", "y", " ", "T", "i", "m", "e", "o", "u", "t">>,
                     <<"N", "o", "t", " ", "F", "o", "u", "n", "d">>}
JobErrors        == {<<"U", "n", "k", "n", "o", "w", "n", " ", "e", "r", "r", "o", "r">>}
FetchErrors      == {<<"f", "e", "t", "c", "h", " ", "f", "a", "i", "l", "e", "d">>,
                     <<"N", "e", "t", "w", "o", "r", "k", " ", "c", "o", "n", "n", "e", "c", "t", "i", "o", "n", " ", "l", "o", "s", "t">>}

\* Mutant of shouldRetry: a message mentioning 500 is retried as well.
shouldRetryAlso500(error, att, maxAttempts) ==
    IF att >= maxAttempts THEN FALSE
    ELSE LET errorString == ToLower(error)
         IN  \/ Includes(errorString, <<"t", "i", "m", "e", "o", "u", "t">>)
             \/ Includes(errorString, <<"n", "e", "t", "w", "o", "r", "k">>)
             \/ Includes(errorString, <<"c", "o", "n", "n", "e", "c", "t", "i", "o", "n">>)
             \/ Includes(errorString, <<"r", "a", "t", "e", " ", "l", "i", "m", "i", "t">>)
             \/ Includes(errorString, <<"4", "2", "9">>)
             \/ Includes(errorString, <<"5", "0", "0">>)
             \/ Includes(errorString, <<"5", "0", "3">>)
             \/ Includes(errorString, <<"5", "0", "2">>)
             \/ Includes(errorString, <<"5", "0", "4">>)

\* shouldRetry(error, attempt, maxAttempts)
shouldRetry(error, att, maxAttempts) ==
    IF att >= maxAttempts THEN FALSE
    ELSE LET errorString == ToLower(error)
         IN  \/ Includes(errorString, <<"t", "i", "m", "e", "o", "u", "t">>)
             \/ Includes(errorString, <<"n", "e", "t", "w", "o", "r", "k">>)
             \/ Includes(errorString, <<"c", "o", "n", "n", "e", "c", "t", "i", "o", "n">>)
             \/ Includes(errorString, <<"r", "a", "t", "e", " ", "l", "i", "m", "i", "t">>)
             \/ Includes(errorString, <<"4", "2", "9">>)
             \/ Includes(errorString, <<"5", "0", "3">>)
             \/ Includes(errorString, <<"5", "0", "2">>)
             \/ Includes(errorString, <<"5", "0", "4">>)

\* getBackoffDelay(attempt, baseDelay = 1000)
getBackoffDelay(att) == Min(1000 * Pow2(att), 30000)

\* const maxAttempts = 120 (polling loop)
pollCeiling == 120

\* Largest options.maxRetries among the sample calls (the default is 3).
MaxRetriesOpt == 6

RetryOptions == {0, 3, MaxRetriesOpt}

\* statusData.output of a succeeded job.
OutNull     == [kind |-> "null", parts |-> <<>>]
OutStr(t)   == [kind |-> "string", parts |-> t]
OutList(l)  == [kind |-> "list", parts |-> l]
\* An object output: its text, content and output members, <<>> where the
\* member is missing (or the empty string, which the truthiness tests of lines
\* 208-212 treat alike).
OutObj(text, content, output) == [kind |-> "object", parts |-> <<text, content, output>>]
OutputSamples == {OutNull, OutStr(<<>>), OutStr(<<"{", "}">>), OutList(<<>>),
                  OutList(<< <<"{">>, <<"}">> >>),
                  OutObj(<<"{", "}">>, <<"[", "]">>, <<>>),
                  OutObj(<<>>, <<"[", "]">>, <<"{", "}">>),
                  OutObj(<<>>, <<>>, <<"{", "}">>),
                  OutObj(<<>>, <<>>, <<>>)}

\* !result : null and the empty string are falsy, every array is truthy.
Falsy(out) == out.kind = "null" \/ (out.kind = "string" /\ out.parts = <<>>)

RECURSIVE Join(_)
Join(parts) == IF parts = <<>> THEN <<>> ELSE Head(parts) \o Join(Tail(parts))

\* Lines 199-224: the text returned for a truthy result.  An empty array is an
\* object without text, content or output and is returned as JSON.stringify
\* gives it, "[]"; an object without the three members likewise, "{}".
NormalizeOutput(out) ==
    IF out.kind = "list" /\ Len(out.parts) > 0 THEN Join(out.parts)
    ELSE IF out.kind = "string" THEN out.parts
    ELSE IF out.kind = "list" THEN <<"[", "]">>
    ELSE IF out.parts[1] # <<>> THEN out.parts[1]
    ELSE IF out.parts[2] # <<>> THEN out.parts[2]
    ELSE IF out.parts[3] # <<>> THEN out.parts[3]
    ELSE <<"{", "}">>

----------------------------------------------------------------------------
(* Text-generation client: actions                                          *)

\* getModelVersion (lines 14-77).  What the two endpoints can answer: the
\* model-info reply is OK and carries latest_version.id, or only
\* default_version, or neither; or it is not OK; or the request is rejected
\* (network error, 15 s abort).  The versions-list reply is OK with a first
\* result that has an id, OK with a first result without an id, OK with no
\* results, not OK, or rejected.
InfoAnswers == {"latest", "default", "nofield", "nonok", "rejected"}
ListAnswers == {"results", "noid", "empty", "nonok", "rejected"}

VersionNull      == "null"
VersionUndefined == "undefined"

\* Mutant of InfoVersion: default_version is not looked at.
InfoVersionLatestOnly(answer) ==
    IF answer = "latest" THEN "latest_version.id" ELSE VersionNull

\* Lines 29-44: the value approach 1 returns, VersionNull when it falls
\* through to approach 2.
InfoVersion(answer) ==
    CASE answer = "latest"  -> "latest_version.id"
      [] answer = "default" -> "default_version"
      [] OTHER              -> VersionNull

\* Lines 61-76: the value approach 2 (and with it getModelVersion) returns.
ListVersion(answer) ==
    CASE answer = "results" -> "results[0].id"
      [] answer = "noid"    -> VersionUndefined
      [] OTHER              -> VersionNull

\* Line 99: if (!version) throw ...
Present(v) == v \notin {VersionNull, VersionUndefined}

NoOut == [kind |-> "none", text |-> <<>>]

LlmInit ==
    /\ llmPc = "start"
    /\ llmToken \in BOOLEAN
    /\ llmMaxRetries \in RetryOptions
    /\ attempt = 0
    /\ runs = 0
    /\ creates = 0
    /\ pollAttempts = 0
    /\ pollReqs = 0
    /\ lastError = <<>>
    /\ lastCause = "none"
    /\ llmWaits = <<>>
    /\ llmOut = NoOut
    /\ verLog = <<>>
    /\ infoAnswer = "none"
    /\ version = VersionNull

LlmIdle ==
    /\ llmPc = "off"
    /\ llmToken = FALSE
    /\ llmMaxRetries = 0
    /\ attempt = 0
    /\ runs = 0
    /\ creates = 0
    /\ pollAttempts = 0
    /\ pollReqs = 0
    /\ lastError = <<>>
    /\ lastCause = "none"
    /\ llmWaits = <<>>
    /\ llmOut = NoOut
    /\ verLog = <<>>
    /\ infoAnswer = "none"
    /\ version = VersionNull

\* The catch block of callReplicateLLM (lines 270-284) for an error raised by
\* the current run: back off and go round the loop, or give up.
Caught(msg, cause) ==
    /\ lastError' = msg
    /\ lastCause' = cause
    /\ IF attempt < llmMaxRetries /\ shouldRetry(msg, attempt, llmMaxRetries)
       THEN /\ llmPc' = "backoff"
            /\ llmWaits' = Append(llmWaits, getBackoffDelay(attempt))
            /\ UNCHANGED llmOut
       ELSE /\ llmPc' = "threw"
            /\ llmOut' = [kind |-> "error", text |-> MsgCallFailedPrefix \o msg]
            /\ UNCHANGED llmWaits

\* Lines 241-247: without a token the call fails before any attempt.
LlmNoToken ==
    /\ llmPc = "start"
    /\ ~llmToken
    /\ llmPc' = "threw"
    /\ lastError' = MsgNoToken
    /\ lastCause' = "notoken"
    /\ llmOut' = [kind |-> "error", text |-> MsgNoToken]
    /\ UNCHANGED <<llmToken, llmMaxRetries, attempt, runs, creates, pollAttempts, pollReqs, llmWaits>>
    /\ UNCHANGED verVars
    /\ UNCHANGED notLlm

\* First iteration of the loop: callReplicatePredictionAPI is entered and
\* getModelVersion sends the model-info request.
LlmFirstRun ==
    /\ llmPc = "start"
    /\ llmToken
    /\ llmPc' = "v1"
    /\ runs' = 1
    /\ verLog' = <<"info">>
    /\ infoAnswer' = "none"
    /\ version' = VersionNull
    /\ UNCHANGED <<llmToken, llmMaxRetries, attempt, creates, pollAttempts, pollReqs,
                   lastError, lastCause, llmWaits, llmOut>>
    /\ UNCHANGED notLlm

\* getModelVersion, approach 1 (lines 16-46): a version is found and the
\* create request is sent, or the versions list is requested.
LlmModelInfo(answer) ==
    /\ llmPc = "v1"
    /\ infoAnswer' = answer
    /\ IF InfoVersion(answer) # VersionNull
       THEN /\ version' = InfoVersion(answer)
            /\ llmPc' = "create" /\ creates' = creates + 1
            /\ UNCHANGED verLog
       ELSE /\ llmPc' = "v2"
            /\ verLog' = Append(verLog, "list")
            /\ UNCHANGED <<creates, version>>
    /\ UNCHANGED <<llmToken, llmMaxRetries, attempt, runs, pollAttempts, pollReqs,
                   lastError, lastCause, llmWaits, llmOut>>
    /\ UNCHANGED notLlm

\* getModelVersion, approach 2 (lines 48-76), then lines 95-101.
LlmVersionsList(answer) ==
    /\ llmPc = "v2"
    /\ version' = ListVersion(answer)
    /\ IF Present(ListVersion(answer))
       THEN /\ llmPc' = "create" /\ creates' = creates + 1
            /\ UNCHANGED <<lastError, lastCause, llmWaits, llmOut>>
       ELSE /\ Caught(MsgNoVersion, "noversion")
            /\ UNCHANGED creates
    /\ UNCHANGED <<llmToken, llmMaxRetries, attempt, runs, pollAttempts, pollReqs,
                   verLog, infoAnswer>>
    /\ UNCHANGED notLlm

\* The create request is answered (lines 131-156).
LlmCreateOk ==
    /\ llmPc = "create"
    /\ llmPc' = "poll"
    /\ pollAttempts' = 0
    /\ pollReqs' = 0
    /\ UNCHANGED <<llmToken, llmMaxRetries, attempt, runs, creates, lastError, lastCause,
                   llmWaits, llmOut>>
    /\ verLog' = <<>> /\ infoAnswer' = "none" /\ version' = VersionNull
    /\ UNCHANGED notLlm

LlmCreateFails ==
    /\ llmPc = "create"
    /\ \/ Caught(MsgRequestTimedOut, "abort")
       \/ \E t \in FetchErrors : Caught(t, "fetch")
       \/ \E t \in CreateErrorTexts : Caught(MsgCreatePrefix \o t, "http")
       \/ Caught(MsgNoPredictionId, "noid")
    /\ UNCHANGED <<llmToken, llmMaxRetries, attempt, runs, creates, pollAttempts, pollReqs>>
    /\ verLog' = <<>> /\ infoAnswer' = "none" /\ version' = VersionNull
    /\ UNCHANGED notLlm

\* One iteration of the polling loop that does not leave it (lines 163-193).
LlmPollPending ==
    /\ llmPc = "poll"
    /\ pollAttempts < pollCeiling
    /\ pollReqs' = pollReqs + 1
    /\ pollAttempts' = pollAttempts + 1
    /\ UNCHANGED <<llmPc, llmToken, llmMaxRetries, attempt, runs, creates, lastError, lastCause,
                   llmWaits, llmOut>>
    /\ UNCHANGED verVars
    /\ UNCHANGED notLlm

\* An iteration whose status request fails or reports failed / canceled.
LlmPollFails ==
    /\ llmPc = "poll"
    /\ pollAttempts < pollCeiling
    /\ pollReqs' = pollReqs + 1
    /\ \/ Caught(MsgRequestTimedOut, "abort")
       \/ \E t \in FetchErrors : Caught(t, "fetch")
       \/ \E t \in StatusTexts : Caught(MsgStatusPrefix \o t, "http")
       \/ \E t \in JobErrors : Caught(MsgFailedPrefix \o t, "failed")
       \/ Caught(MsgCanceled, "canceled")
    /\ UNCHANGED <<llmToken, llmMaxRetries, attempt, runs, creates, pollAttempts>>
    /\ UNCHANGED verVars
    /\ UNCHANGED notLlm

\* An iteration that reads status succeeded (lines 183-185, 195-224).
LlmPollSucceeded(out) ==
    /\ llmPc = "poll"
    /\ pollAttempts < pollCeiling
    /\ pollReqs' = pollReqs + 1
    /\ IF Falsy(out)
       THEN Caught(MsgPredictionTimedOut, "emptyoutput")
       ELSE /\ llmPc' = "returned"
            /\ llmOut' = [kind |-> "text", text |-> NormalizeOutput(out)]
            /\ UNCHANGED <<lastError, lastCause, llmWaits>>
    /\ UNCHANGED <<llmToken, llmMaxRetries, attempt, runs, creates, pollAttempts>>
    /\ UNCHANGED verVars
    /\ UNCHANGED notLlm

\* The loop ends at the ceiling without a result (lines 163, 195-197).
LlmPollCeiling ==
    /\ llmPc = "poll"
    /\ pollAttempts >= pollCeiling
    /\ Caught(MsgPredictionTimedOut, "ceiling")
    /\ UNCHANGED <<llmToken, llmMaxRetries, attempt, runs, creates, pollAttempts, pollReqs>>
    /\ UNCHANGED verVars
    /\ UNCHANGED notLlm

\* The backoff timer fires: next iteration of the loop (lines 277-278, 261).
LlmNextRun ==
    /\ llmPc = "backoff"
    /\ attempt' = attempt + 1
    /\ runs' = runs + 1
    /\ llmPc' = "v1"
    /\ verLog' = <<"info">>
    /\ infoAnswer' = "none"
    /\ version' = VersionNull
    /\ UNCHANGED <<llmToken, llmMaxRetries, creates, pollAttempts, pollReqs, lastError, lastCause,
                   llmWaits, llmOut>>
    /\ UNCHANGED notLlm

LlmModelInfoAny      == \E answer \in InfoAnswers : LlmModelInfo(answer)
LlmVersionsListAny   == \E answer \in ListAnswers : LlmVersionsList(answer)
LlmPollSucceededAny  == \E out \in OutputSamples : LlmPollSucceeded(out)

NextLLM ==
    \/ LlmNoToken \/ LlmFirstRun \/ LlmModelInfoAny \/ LlmVersionsListAny
    \/ LlmCreateOk \/ LlmCreateFails
    \/ LlmPollPending \/ LlmPollFails \/ LlmPollSucceededAny \/ LlmPollCeiling
    \/ LlmNextRun

----------------------------------------------------------------------------
(* Performance client: actions                                              *)

PerfIdle ==
    /\ credential = KeyAbsent
    /\ perfPc = "off"
    /\ pPc = [s \in Strategies |-> "idle"]
    /\ retryCount = [s \in Strategies |-> 0]
    /\ requests = [s \in Strategies |-> 0]
    /\ respLog = [s \in Strategies |-> <<>>]
    /\ waits = [s \in Strategies |-> <<>>]
    /\ pData = [s \in Strategies |-> NoData]
    /\ settleOrder = <<>>
    /\ perfResult = NoResult

PerfInit ==
    /\ credential \in Credentials
    /\ perfPc = "start"
    /\ pPc = [s \in Strategies |-> "idle"]
    /\ retryCount = [s \in Strategies |-> 0]
    /\ requests = [s \in Strategies |-> 0]
    /\ respLog = [s \in Strategies |-> <<>>]
    /\ waits = [s \in Strategies |-> <<>>]
    /\ pData = [s \in Strategies |-> NoData]
    /\ settleOrder = <<>>
    /\ perfResult = NoResult

\* fetchPerformanceMetrics, credential missing or malformed (lines 52-68):
\* return the fallback at once.
PerfRejectCredential ==
    /\ perfPc = "start"
    /\ KeyMissing(credential) \/ ~KeyWellFormed(credential)
    /\ perfPc' = "done"
    /\ perfResult' = Returned(getFallbackPerformanceMetrics)
    /\ UNCHANGED <<credential, pPc, retryCount, requests, respLog, waits, pData, settleOrder>>
    /\ UNCHANGED notPerf

\* fetchPerformanceMetrics, credential accepted (lines 73-81): both
\* fetchPageSpeedMetrics calls are made back to back; each runs up to its
\* first await, i.e. re-checks the key (lines 217-225) and issues its request.
PerfStartBoth ==
    /\ perfPc = "start"
    /\ ~KeyMissing(credential) /\ KeyWellFormed(credential)
    /\ perfPc' = "await"
    /\ LET keyOk == ~KeyMissing(credential) /\ KeyWellFormed(credential)
       IN  /\ pPc' = [s \in Strategies |-> IF keyOk THEN "inflight" ELSE "rejected"]
           /\ requests' = [s \in Strategies |-> IF keyOk THEN 1 ELSE 0]
    /\ UNCHANGED <<credential, retryCount, respLog, waits, pData, settleOrder, perfResult>>
    /\ UNCHANGED notPerf

\* One request of fetchPageSpeedMetrics(strategy) is answered (lines 246-346).
PerfRespond(s, resp) ==
    /\ perfPc = "await"
    /\ pPc[s] = "inflight"
    /\ respLog' = [respLog EXCEPT ![s] = Append(@, RespTag(resp))]
    /\ IF resp.kind = "http" /\ IsRetryable(resp.status) /\ retryCount[s] < maxRetriesPS
       THEN /\ pPc' = [pPc EXCEPT ![s] = "backoff"]
            /\ waits' = [waits EXCEPT ![s] = Append(@, RetryDelay(retryCount[s]))]
            /\ UNCHANGED <<pData, settleOrder>>
       ELSE IF resp.kind = "ok" /\ resp.report.audits.present
       THEN /\ pPc' = [pPc EXCEPT ![s] = "fulfilled"]
            /\ pData' = [pData EXCEPT ![s] = ExtractMetrics(resp.report)]
            /\ settleOrder' = Append(settleOrder, s)
            /\ UNCHANGED waits
       ELSE /\ pPc' = [pPc EXCEPT ![s] = "rejected"]
            /\ settleOrder' = Append(settleOrder, s)
            /\ UNCHANGED <<pData, waits>>
    /\ UNCHANGED <<credential, perfPc, retryCount, requests, perfResult>>
    /\ UNCHANGED notPerf

\* The backoff timer of a retry fires: the recursive call issues the next
\* request with retryCount + 1 (lines 261-262).
PerfRetry(s) ==
    /\ perfPc = "await"
    /\ pPc[s] = "backoff"
    /\ pPc' = [pPc EXCEPT ![s] = "inflight"]
    /\ retryCount' = [retryCount EXCEPT ![s] = @ + 1]
    /\ requests' = [requests EXCEPT ![s] = @ + 1]
    /\ UNCHANGED <<credential, perfPc, respLog, waits, pData, settleOrder, perfResult>>
    /\ UNCHANGED notPerf

Settled(s) == pPc[s] \in {"fulfilled", "rejected"}

\* Mutant of AllSettled: Promise.all semantics, the join fires at the first
\* rejection.
FirstRejectionOrAll(pcs) ==
    \/ \E s \in Strategies : pcs[s] = "rejected"
    \/ \A s \in Strategies : pcs[s] = "fulfilled"

\* Promise.allSettled([...]) resolves when every promise has settled.
AllSettled(pcs) == \A s \in Strategies : pcs[s] \in {"fulfilled", "rejected"}

\* Promise.allSettled resolves once both calls have settled; the rest of
\* fetchPerformanceMetrics runs to its return or to an uncaught exception.
PerfSettle ==
    /\ perfPc = "await"
    /\ AllSettled(pPc)
    /\ perfPc' = "done"
    /\ perfResult' = CombineProfiles(pPc["mobile"] = "fulfilled", pData["mobile"],
                                     pPc["desktop"] = "fulfilled", pData["desktop"])
    /\ UNCHANGED <<credential, pPc, retryCount, requests, respLog, waits, pData, settleOrder>>
    /\ UNCHANGED notPerf

\* Every status a request of one profile can be answered with: the five
\* retryable ones and other non-OK ones.
AllStatusSamples == {400, 403, 404, 429, 500, 502, 503, 504}

ProfileResponses ==
    {resp \in Responses : resp.kind # "http"}
    \cup {[kind |-> "http", status |-> s, report |-> NoReport] : s \in AllStatusSamples}

\* fetchPageSpeedMetrics(url, strategy, apiKey) called for one profile
\* (lines 202-251): the key check passed and the first request is out.
ProfileInit ==
    /\ credential = KeyGood
    /\ perfPc = "await"
    /\ \E s \in Strategies :
          /\ pPc = [t \in Strategies |-> IF t = s THEN "inflight" ELSE "idle"]
          /\ requests = [t \in Strategies |-> IF t = s THEN 1 ELSE 0]
    /\ retryCount = [s \in Strategies |-> 0]
    /\ respLog = [s \in Strategies |-> <<>>]
    /\ waits = [s \in Strategies |-> <<>>]
    /\ pData = [s \in Strategies |-> NoData]
    /\ settleOrder = <<>>
    /\ perfResult = NoResult

ProfileRespondAny == \E s \in Strategies : \E resp \in ProfileResponses : PerfRespond(s, resp)

PerfRespondAny == \E s \in Strategies : \E resp \in Responses : PerfRespond(s, resp)
PerfRetryAny   == \E s \in Strategies : PerfRetry(s)

NextProfile == ProfileRespondAny \/ PerfRetryAny

NextPerf == PerfRejectCredential \/ PerfStartBoth \/ PerfRespondAny \/ PerfRetryAny \/ PerfSettle

----------------------------------------------------------------------------
(* JSON repair (parseJSONRobust): text operations                           *)

\* Texts are sequences of characters; "BT" stands for the backtick character.
\* The characters matched by \s.
Ws == {" ", "\n", "\t", "\r"}

RECURSIVE SkipWs(_, _)
SkipWs(s, i) == IF i <= Len(s) /\ s[i] \in Ws THEN SkipWs(s, i + 1) ELSE i

\* s contains tok at position i.
HasAt(s, i, tok) == i + Len(tok) - 1 <= Len(s) /\ SubSeq(s, i, i + Len(tok) - 1) = tok

\* String.prototype.trim
RECURSIVE TrimEnd(_)
TrimEnd(s) == IF s # <<>> /\ s[Len(s)] \in Ws THEN TrimEnd(SubSeq(s, 1, Len(s) - 1)) ELSE s

Trim(s) == TrimEnd(SubSeq(s, SkipWs(s, 1), Len(s)))

\* s.replace(/tok\s*/g, '') ; the i flag when caseless.
RECURSIVE StripToken(_, _, _, _)
StripToken(s, i, tok, caseless) ==
    IF i > Len(s) THEN <<>>
    ELSE IF HasAt(IF caseless THEN ToLower(s) ELSE s, i, tok)
         THEN StripToken(s, SkipWs(s, i + Len(tok)), tok, caseless)
         ELSE <<s[i]>> \o StripToken(s, i + 1, tok, caseless)

\* Step 1 of parseJSONRobust: trim, remove code fences, trim.
CleanFences(response) ==
    LET fence == <<"BT", "BT", "BT">>
        a == StripToken(Trim(response), 1, fence \o <<"j", "s", "o", "n">>, TRUE)
    IN  Trim(StripToken(a, 1, fence, FALSE))

\* s.replace(/::/g, ':')
RECURSIVE FixDoubleColons(_, _)
FixDoubleColons(s, i) ==
    IF i > Len(s) THEN <<>>
    ELSE IF HasAt(s, i, <<":", ":">>) THEN <<":">> \o FixDoubleColons(s, i + 2)
    ELSE <<s[i]>> \o FixDoubleColons(s, i + 1)

\* s.replace(/,(\s*[closers])/g, '$1') ; with newline, /,(\s*\n\s*[closers])/g.
RECURSIVE RemoveTrailingCommas(_, _, _, _)
RemoveTrailingCommas(s, i, closers, newline) ==
    IF i > Len(s) THEN <<>>
    ELSE LET j == SkipWs(s, i + 1)
             hit == /\ s[i] = ","
                    /\ j <= Len(s) /\ s[j] \in closers
                    /\ newline => \E k \in (i + 1)..(j - 1) : s[k] = "\n"
         IN  IF hit THEN SubSeq(s, i + 1, j) \o RemoveTrailingCommas(s, j + 1, closers, newline)
             ELSE <<s[i]>> \o RemoveTrailingCommas(s, i + 1, closers, newline)

\* s.replace(/\/\/.*$/gm, '') : from // up to the end of the line.
RECURSIVE StripLineComments(_, _)
StripLineComments(s, i) ==
    IF i > Len(s) THEN <<>>
    ELSE IF HasAt(s, i, <<"/", "/">>)
         THEN StripLineComments(s, FirstOf(s, i, {"\n", "\r"}))
         ELSE <<s[i]>> \o StripLineComments(s, i + 1)

\* Position of the first occurrence of tok at or after i; 0 when none.
RECURSIVE IndexOf(_, _, _)
IndexOf(s, i, tok) ==
    IF i + Len(tok) - 1 > Len(s) THEN 0
    ELSE IF HasAt(s, i, tok) THEN i
    ELSE IndexOf(s, i + 1, tok)

\* s.replace(/\/\*[\s\S]*?\*\//g, '')
RECURSIVE StripBlockComments(_, _)
StripBlockComments(s, i) ==
    IF i > Len(s) THEN <<>>
    ELSE LET close == IndexOf(s, i + 2, <<"*", "/">>)
         IN  IF HasAt(s, i, <<"/", "*">>) /\ close # 0
             THEN StripBlockComments(s, close + 2)
             ELSE <<s[i]>> \o StripBlockComments(s, i + 1)

\* s.replace(/,+/g, ',')
RECURSIVE CollapseCommas(_, _)
CollapseCommas(s, i) ==
    IF i > Len(s) THEN <<>>
    ELSE IF s[i] = "," /\ i < Len(s) /\ s[i + 1] = "," THEN CollapseCommas(s, i + 1)
    ELSE <<s[i]>> \o CollapseCommas(s, i + 1)

\* repairJSON (lines 290-313): the seven replacements in source order.
repairJSON(jsonString) ==
    LET r1 == FixDoubleColons(jsonString, 1)
        r2 == RemoveTrailingCommas(r1, 1, {"}", "]"}, FALSE)
        r3 == StripLineComments(r2, 1)
        r4 == StripBlockComments(r3, 1)
        r5 == CollapseCommas(r4, 1)
        r6 == RemoveTrailingCommas(r5, 1, {"]"}, FALSE)
    IN  RemoveTrailingCommas(r6, 1, {"}"}, FALSE)

\* The brace-depth scan of extractJSON (lines 343-354): position of the brace
\* that brings the count back to 0, or 0 when the text ends first.
RECURSIVE MatchBrace(_, _, _)
MatchBrace(text, i, braceCount) ==
    IF i > Len(text) THEN 0
    ELSE IF text[i] = "{" THEN MatchBrace(text, i + 1, braceCount + 1)
    ELSE IF text[i] = "}"
         THEN IF braceCount = 1 THEN i ELSE MatchBrace(text, i + 1, braceCount - 1)
    ELSE MatchBrace(text, i + 1, braceCount)

\* Position of the last occurrence of character c; 0 when none.
RECURSIVE LastIndexOf(_, _, _)
LastIndexOf(s, i, c) ==
    IF i = 0 THEN 0 ELSE IF s[i] = c THEN i ELSE LastIndexOf(s, i - 1, c)

\* Step 2 of parseJSONRobust (lines 380-416): extractJSON, and when it throws
\* the greedy match /\{[\s\S]*\}/ (the non-greedy match never succeeds where
\* the greedy one failed).
ExtractSpan(cleaned) ==
    LET firstBrace == IndexOf(cleaned, 1, <<"{">>)
        lastBrace  == IF firstBrace = 0 THEN 0 ELSE MatchBrace(cleaned, firstBrace, 0)
        greedyEnd  == LastIndexOf(cleaned, Len(cleaned), "}")
    IN  IF firstBrace # 0 /\ lastBrace # 0
        THEN [ok |-> TRUE, text |-> SubSeq(cleaned, firstBrace, lastBrace)]
        ELSE IF firstBrace # 0 /\ greedyEnd > firstBrace
        THEN [ok |-> TRUE, text |-> SubSeq(cleaned, firstBrace, greedyEnd)]
        ELSE [ok |-> FALSE, text |-> <<>>]

----------------------------------------------------------------------------
(* JSON repair: values, JSON.stringify and JSON.parse                       *)

\* A JSON value: a string or a number (digits) with its characters in s, an
\* object or an array with its members in m (an array member has key <<>>).
JStr(chars) == [t |-> "str", s |-> chars, m |-> <<>>]
JNum(chars) == [t |-> "num", s |-> chars, m |-> <<>>]
JObj(members) == [t |-> "obj", s |-> <<>>, m |-> members]
JArr(members) == [t |-> "arr", s |-> <<>>, m |-> members]
Member(key, value) == [k |-> key, v |-> value]

\* A string literal: quotes and backslashes are escaped, as JSON.stringify does.
RECURSIVE Escape(_)
Escape(chars) ==
    IF chars = <<>> THEN <<>>
    ELSE (IF Head(chars) \in {"\"", "\\"} THEN <<"\\", Head(chars)>>
          ELSE IF Head(chars) = "\n" THEN <<"\\", "n">>
          ELSE <<Head(chars)>>) \o Escape(Tail(chars))

Quoted(chars) == <<"\"">> \o Escape(chars) \o <<"\"">>

\* JSON.stringify(value) without indentation.
RECURSIVE Stringify(_), StringifyMembers(_, _)
Stringify(value) ==
    IF value.t = "str" THEN Quoted(value.s)
    ELSE IF value.t = "num" THEN value.s
    ELSE IF value.t = "obj" THEN <<"{">> \o StringifyMembers(value.m, TRUE) \o <<"}">>
    ELSE <<"[">> \o StringifyMembers(value.m, FALSE) \o <<"]">>

StringifyMembers(members, keyed) ==
    IF members = <<>> THEN <<>>
    ELSE (IF keyed THEN Quoted(Head(members).k) \o <<":">> ELSE <<>>)
         \o Stringify(Head(members).v)
         \o (IF Len(members) > 1 THEN <<",">> ELSE <<>>)
         \o StringifyMembers(Tail(members), keyed)

\* JSON.parse raised a SyntaxError.
ParseFail == [ok |-> FALSE, val |-> JStr(<<>>), pos |-> 0]

\* The characters of a string literal from position i (after its opening
\* quote) up to the closing quote.
RECURSIVE ParseChars(_, _, _)
ParseChars(s, i, acc) ==
    IF i > Len(s) THEN ParseFail
    ELSE IF s[i] = "\"" THEN [ok |-> TRUE, val |-> JStr(acc), pos |-> i + 1]
    ELSE IF s[i] = "\\"
         THEN IF i + 1 <= Len(s) /\ s[i + 1] \in {"\"", "\\", "/"}
              THEN ParseChars(s, i + 2, Append(acc, s[i + 1]))
              ELSE IF i + 1 <= Len(s) /\ s[i + 1] = "n"
              THEN ParseChars(s, i + 2, Append(acc, "\n"))
              ELSE ParseFail
    ELSE IF s[i] \in {"\n", "\t", "\r"} THEN ParseFail
    ELSE ParseChars(s, i + 1, Append(acc, s[i]))

\* obj[key] = value : a repeated key keeps its place and takes the new value.
PutMember(members, key, value, keyed) ==
    IF keyed /\ \E n \in 1..Len(members) : members[n].k = key
    THEN [n \in 1..Len(members) |->
             IF members[n].k = key THEN Member(key, value) ELSE members[n]]
    ELSE Append(members, Member(key, value))

\* JSON.parse by recursive descent, for values built of objects, arrays,
\* strings and unsigned integers: the value starting at or after position i0
\* and the position after it.
RECURSIVE ParseValue(_, _), ParseMembers(_, _, _, _)
ParseValue(s, i0) ==
    LET i == SkipWs(s, i0)
        j == SkipWs(s, i + 1)
        digitsEnd == FirstOf(s, i, (Ws \cup {",", "}", "]", ":", "\"", "{", "[", "/", "*"}))
    IN  IF i > Len(s) THEN ParseFail
        ELSE IF s[i] = "\"" THEN ParseChars(s, i + 1, <<>>)
        ELSE IF s[i] \in DigitChars
             THEN IF /\ \A n \in i..(digitsEnd - 1) : s[n] \in DigitChars
                     /\ (digitsEnd - i > 1) => s[i] # "0"
                  THEN [ok |-> TRUE, val |-> JNum(SubSeq(s, i, digitsEnd - 1)), pos |-> digitsEnd]
                  ELSE ParseFail
        ELSE IF s[i] \in {"{", "["}
             THEN IF j <= Len(s) /\ s[j] = (IF s[i] = "{" THEN "}" ELSE "]")
                  THEN [ok |-> TRUE, val |-> (IF s[i] = "{" THEN JObj(<<>>) ELSE JArr(<<>>)),
                        pos |-> j + 1]
                  ELSE ParseMembers(s, j, s[i] = "{", <<>>)
        ELSE ParseFail

ParseMembers(s, i, keyed, acc) ==
    LET key   == IF ~keyed THEN [ok |-> TRUE, val |-> JStr(<<>>), pos |-> i]
                 ELSE IF i <= Len(s) /\ s[i] = "\"" THEN ParseChars(s, i + 1, <<>>)
                 ELSE ParseFail
        c     == SkipWs(s, key.pos)
        value == ParseValue(s, IF keyed THEN c + 1 ELSE i)
        e     == SkipWs(s, value.pos)
        acc2  == PutMember(acc, key.val.s, value.val, keyed)
    IN  IF ~key.ok THEN ParseFail
        ELSE IF keyed /\ ~(c <= Len(s) /\ s[c] = ":") THEN ParseFail
        ELSE IF ~value.ok \/ e > Len(s) THEN ParseFail
        ELSE IF s[e] = (IF keyed THEN "}" ELSE "]")
             THEN [ok |-> TRUE, val |-> (IF keyed THEN JObj(acc2) ELSE JArr(acc2)), pos |-> e + 1]
        ELSE IF s[e] = "," THEN ParseMembers(s, SkipWs(s, e + 1), keyed, acc2)
        ELSE ParseFail

\* JSON.parse(text): the whole text must be one value.
JSONParse(text) ==
    LET r == ParseValue(text, 1)
    IN  IF r.ok /\ SkipWs(text, r.pos) > Len(text) THEN r ELSE ParseFail

----------------------------------------------------------------------------
(* JSON repair: parseJSONRobust and its callers' texts                      *)

\* One pass of the trailing-comma removals of strategies 3 to 5.
CommaPass(s, newlineToo) ==
    LET a == RemoveTrailingCommas(s, 1, {"}", "]"}, FALSE)
    IN  IF newlineToo THEN RemoveTrailingCommas(a, 1, {"}", "]"}, TRUE) ELSE a

\* n passes; with untilStable the loop also ends when a pass changes nothing.
RECURSIVE CommaPasses(_, _, _, _)
CommaPasses(s, n, newlineToo, untilStable) ==
    LET next == CommaPass(s, newlineToo)
    IN  IF n = 0 \/ (untilStable /\ next = s) THEN s
        ELSE CommaPasses(next, n - 1, newlineToo, untilStable)

\* The text handed to JSON.parse by strategy k of the list (lines 419-487):
\* 1 direct, 2 repairJSON, 3 (2b) colons then repairJSON, 4 (3) colons and
\* 5 comma passes, 5 (4) colons and 10 passes, 6 (5) colons and up to 20.
StrategyText(k, str) ==
    LET fixed == FixDoubleColons(str, 1)
        three == CommaPasses(fixed, 5, FALSE, FALSE)
    IN  IF k = 1 THEN str
        ELSE IF k = 2 THEN repairJSON(str)
        ELSE IF k = 3 THEN repairJSON(fixed)
        ELSE IF k = 4
             THEN RemoveTrailingCommas(RemoveTrailingCommas(three, 1, {"]"}, FALSE),
                                       1, {"}"}, FALSE)
        ELSE IF k = 5 THEN CommaPasses(fixed, 10, TRUE, FALSE)
        ELSE CommaPasses(fixed, 20, TRUE, TRUE)

NoJsOut == [kind |-> "none", value |-> JObj(<<>>), strategy |-> 0]

\* parseJSONRobust (lines 373-540): the value of the first strategy whose
\* text parses, or an error.
parseJSONRobust(response) ==
    LET span == ExtractSpan(CleanFences(response))
        works == {k \in 1..6 : JSONParse(StrategyText(k, span.text)).ok}
        first == CHOOSE k \in works : \A n \in works : k <= n
    IN  IF ~span.ok \/ works = {}
        THEN [kind |-> "threw", value |-> JObj(<<>>), strategy |-> 0]
        ELSE [kind |-> "value", value |-> JSONParse(StrategyText(first, span.text)).val,
              strategy |-> first]

\* {"a": chars}
ObjA(chars) == JObj(<<Member(<<"a">>, JStr(chars))>>)

\* Objects a reply may carry: plain ones, nested ones, and ones whose string
\* values hold braces, commas, colons, slashes, quotes or backticks.
JsonSamples ==
    {JObj(<<>>),
     ObjA(<<"x">>),
     JObj(<<Member(<<"a">>, JStr(<<"x">>)),
            Member(<<"b">>, JArr(<<Member(<<>>, JStr(<<"y">>)), Member(<<>>, JNum(<<"4", "2">>))>>))>>),
     JObj(<<Member(<<"a">>, JObj(<<Member(<<"b">>, JStr(<<"x", " ", "y">>))>>))>>),
     ObjA(<<"}">>),
     ObjA(<<"{">>),
     ObjA(<<"x", ",", "y", ":", "z", "/", "w">>),
     ObjA(<<"BT">>),
     ObjA(<<"BT", "BT", "BT">>),
     ObjA(<<"x", ":", ":", "y">>),
     ObjA(<<"x", ",", ",", "y">>),
     ObjA(<<"h", ":", "/", "/", "s">>),
     ObjA(<<"\"", "q", "\"">>)}

\* Positions of text outside string literals.
RECURSIVE Outside(_, _, _)
Outside(s, i, inString) ==
    IF i > Len(s) THEN {}
    ELSE IF inString
         THEN IF s[i] = "\\" THEN Outside(s, i + 2, TRUE)
              ELSE Outside(s, i + 1, s[i] # "\"")
    ELSE IF s[i] = "\"" THEN Outside(s, i + 1, TRUE)
    ELSE {i} \cup Outside(s, i + 1, FALSE)

\* text with character c inserted before position p.
InsertAt(text, p, c) == SubSeq(text, 1, p - 1) \o <<c>> \o SubSeq(text, p, Len(text))

JsonInit ==
    /\ jsPc = "obj"
    /\ jsObj \in JsonSamples
    /\ jsText = <<>>
    /\ jsCorruption = "none"
    /\ jsFenced = FALSE
    /\ jsOut = NoJsOut

JsonIdle ==
    /\ jsPc = "off"
    /\ jsObj = JObj(<<>>)
    /\ jsText = <<>>
    /\ jsCorruption = "none"
    /\ jsFenced = FALSE
    /\ jsOut = NoJsOut

\* The reply is the standard serialization of the object.
JsSerialize ==
    /\ jsPc = "obj"
    /\ jsPc' = "text"
    /\ jsText' = Stringify(jsObj)
    /\ UNCHANGED <<jsObj, jsCorruption, jsFenced, jsOut>>
    /\ UNCHANGED notJson

\* The reply carries a trailing comma before a closing brace or bracket.
JsTrailingComma ==
    /\ jsPc = "text"
    /\ jsCorruption = "none"
    /\ \E p \in Outside(jsText, 1, FALSE) :
          /\ jsText[p] \in {"}", "]"}
          /\ jsText[p - 1] \notin {"{", "["}
          /\ jsText' = InsertAt(jsText, p, ",")
    /\ jsCorruption' = "comma"
    /\ UNCHANGED <<jsPc, jsObj, jsFenced, jsOut>>
    /\ UNCHANGED notJson

\* The reply carries "key":: instead of "key": .
JsDoubleColon ==
    /\ jsPc = "text"
    /\ jsCorruption = "none"
    /\ \E p \in Outside(jsText, 1, FALSE) :
          /\ jsText[p] = ":"
          /\ jsText' = InsertAt(jsText, p, ":")
    /\ jsCorruption' = "colon"
    /\ UNCHANGED <<jsPc, jsObj, jsFenced, jsOut>>
    /\ UNCHANGED notJson

\* The reply is wrapped in a markdown code fence.
JsFence ==
    /\ jsPc = "text"
    /\ ~jsFenced
    /\ jsFenced' = TRUE
    /\ jsText' = <<"BT", "BT", "BT", "j", "s", "o", "n", "\n">> \o jsText
                    \o <<"\n", "BT", "BT", "BT">>
    /\ UNCHANGED <<jsPc, jsObj, jsCorruption, jsOut>>
    /\ UNCHANGED notJson

JsParse ==
    /\ jsPc = "text"
    /\ jsPc' = "parsed"
    /\ jsOut' = parseJSONRobust(jsText)
    /\ UNCHANGED <<jsObj, jsText, jsCorruption, jsFenced>>
    /\ UNCHANGED notJson

NextJSON == JsSerialize \/ JsTrailingComma \/ JsDoubleColon \/ JsFence \/ JsParse

\* extractProductDataWithLLM (replicate.ts lines 359-388) applied to the text
\* callReplicateLLM returned: parseJSONRobust, then the test
\* typeof parsedData !== 'object' || parsedData === null || Array.isArray(parsedData);
\* every failure is rethrown as 'Product extraction failed: ...'.
extractProductDataWithLLM(response) ==
    LET parsed == parseJSONRobust(response)
    IN  IF parsed.kind = "threw" THEN [kind |-> "threw", value |-> JObj(<<>>), strategy |-> 0]
        ELSE IF parsed.value.t # "obj"
             THEN [kind |-> "threw", value |-> JObj(<<>>), strategy |-> 0]
             ELSE [kind |-> "returned", value |-> parsed.value, strategy |-> parsed.strategy]

\* JSON values a reply may carry at top level: objects, arrays (empty, of
\* primitives, of one object, of two objects) and primitives.
ReplySamples ==
    {JObj(<<>>),
     ObjA(<<"x">>),
     JObj(<<Member(<<"a">>, JArr(<<Member(<<>>, JStr(<<"y">>))>>))>>),
     JArr(<<>>),
     JArr(<<Member(<<>>, JStr(<<"x">>)), Member(<<>>, JNum(<<"4", "2">>))>>),
     JArr(<<Member(<<>>, ObjA(<<"x">>))>>),
     JArr(<<Member(<<>>, ObjA(<<"x">>)), Member(<<>>, ObjA(<<"y">>))>>),
     JArr(<<Member(<<>>, JObj(<<>>))>>),
     JArr(<<Member(<<>>, JObj(<<Member(<<"a">>, JNum(<<"1">>))>>))>>),
     JStr(<<"x">>),
     JStr(<<"x", "{", "y">>),
     JStr(<<"{", "}">>),
     JNum(<<"4", "2">>)}

ExtractInit ==
    /\ jsPc = "obj"
    /\ jsObj \in ReplySamples
    /\ jsText = <<>>
    /\ jsCorruption = "none"
    /\ jsFenced = FALSE
    /\ jsOut = NoJsOut

\* The reply text has arrived and extractProductDataWithLLM returns or throws.
ExtractParse ==
    /\ jsPc = "text"
    /\ jsPc' = "extracted"
    /\ jsOut' = extractProductDataWithLLM(jsText)
    /\ UNCHANGED <<jsObj, jsText, jsCorruption, jsFenced>>
    /\ UNCHANGED notJson

NextExtract == JsSerialize \/ JsTrailingComma \/ JsDoubleColon \/ JsFence \/ ExtractParse

----------------------------------------------------------------------------
(* Error sanitizer (sanitizeError, createErrorResponse)                     *)

\* The characters of a string literal.
Chars(str) == [i \in 1..Len(str) |-> SubSeq(str, i, i)]

\* Position of the last occurrence of tok starting at or after from; 0 when none.
RECURSIVE LastAt(_, _, _)
LastAt(s, from, tok) ==
    LET q == IndexOf(s, from, tok)
        later == LastAt(s, q + 1, tok)
    IN  IF q = 0 THEN 0 ELSE IF later = 0 THEN q ELSE later

\* For literal parts p1 .* p2 .* ... of which the text before from is already
\* matched: the last position of the greedy match, 0 when there is none.
RECURSIVE GapEnd(_, _, _)
GapEnd(line, from, parts) ==
    LET p == Head(parts)
        q == IF Len(parts) = 1 THEN LastAt(line, from, p) ELSE IndexOf(line, from, p)
    IN  IF q = 0 THEN 0
        ELSE IF Len(parts) = 1 THEN q + Len(p) - 1
        ELSE GapEnd(line, q + Len(p), Tail(parts))

\* Last position of the match of one alternative starting exactly at i.
AltEnd(line, i, parts) ==
    IF ~HasAt(line, i, Head(parts)) THEN 0
    ELSE IF Len(parts) = 1 THEN i + Len(Head(parts)) - 1
    ELSE GapEnd(line, i + Len(Head(parts)), Tail(parts))

\* Last position of the match of the pattern at i: the first alternative, in
\* order, that matches there.
RECURSIVE PatternEnd(_, _, _)
PatternEnd(line, i, alts) ==
    IF alts = <<>> THEN 0
    ELSE IF AltEnd(line, i, Head(alts)) # 0 THEN AltEnd(line, i, Head(alts))
    ELSE PatternEnd(line, i, Tail(alts))

\* s.replace(pattern, replacement) with the flags g and i: matches are sought
\* from left to right in the lower-cased text, . does not cross a line end.
RECURSIVE ReplaceAll(_, _, _, _)
ReplaceAll(s, i, alts, replacement) ==
    IF i > Len(s) THEN <<>>
    ELSE LET lineEnd == FirstOf(s, i, {"\n", "\r"}) - 1
             end == PatternEnd(ToLower(SubSeq(s, 1, lineEnd)), i, alts)
         IN  IF end # 0 THEN replacement \o ReplaceAll(s, end + 1, alts, replacement)
             ELSE <<s[i]>> \o ReplaceAll(s, i + 1, alts, replacement)

Pattern(alts, replacement) == [alts |-> alts, replacement |-> Chars(replacement)]
Lit(str) == <<Chars(str)>>
Gap(a, b) == <<Chars(a), Chars(b)>>

\* sanitizationMap (lines 23-51), in source order.
sanitizationMap ==
    <<Pattern(<<Lit("replicate"), Lit("gpt-5"), Lit("gpt5"), Lit("openai"), Lit("gpt-4"),
                Lit("gpt4")>>, "Stylr AI"),
      Pattern(<<Lit("replicate api"), Lit("replicate.com")>>, "Stylr AI service"),
      Pattern(<<Lit("prediction failed"), Lit("prediction error"), Lit("prediction timeout")>>,
              "analysis processing"),
      Pattern(<<Lit("model version"), Lit("model hash")>>, "service configuration"),
      Pattern(<<Lit("api token"), Gap("replicate", "token")>>, "service authentication"),
      Pattern(<<Lit("pagespeed"), Gap("google", "pagespeed"), Lit("lighthouse")>>,
              "performance analysis"),
      Pattern(<<Gap("pagespeed", "api"), Lit("pagespeedonline")>>, "Stylr AI performance service"),
      Pattern(<<Gap("api", "error"), Gap("api", "failed"), Gap("api", "timeout")>>,
              "service error"),
      Pattern(<<Gap("failed to", "api"), Gap("api", "unavailable")>>,
              "service temporarily unavailable"),
      Pattern(<<Gap("fetch", "failed"), Gap("network", "error"), Gap("request", "timeout")>>,
              "connection issue"),
      Pattern(<<Lit("timeout"), Lit("timed out")>>, "processing timeout"),
      Pattern(<<Gap("json", "parse"), Lit("invalid json"), Lit("malformed json")>>,
              "data format error"),
      Pattern(<<Gap("rate", "limit"), <<Chars("too"), Chars("many"), Chars("requests")>>,
                Lit("429")>>, "service temporarily busy"),
      Pattern(<<Lit("unauthorized"), Lit("401"), Lit("403"), Gap("authentication", "failed")>>,
              "authentication error")>>

\* Lines 53-58: the patterns applied one after the other.
RECURSIVE ApplyPatterns(_, _)
ApplyPatterns(message, patterns) ==
    IF patterns = <<>> THEN message
    ELSE ApplyPatterns(ReplaceAll(message, 1, Head(patterns).alts, Head(patterns).replacement),
                       Tail(patterns))

\* errorString.includes(a) || errorString.includes(b) || ...
IncludesAny(str, needles) == \E n \in needles : Includes(str, Chars(n))

MsgTimeout == Chars("The analysis is taking longer than expected. Please try again in a moment.")
MsgConnection ==
    Chars("Unable to connect to the analysis service. Please check your internet connection and try again.")
MsgBusy == Chars("The service is currently busy. Please wait a moment and try again.")
MsgInvalid ==
    Chars("Unable to process the page data. Please verify the URL is accessible and try again.")
MsgAuth == Chars("Authentication error. Please refresh the page and try again.")
MsgNotFound ==
    Chars("The requested page could not be found. Please verify the URL is correct.")
MsgInternal ==
    Chars("An internal error occurred. Our team has been notified. Please try again in a few moments.")
MsgGeneric == Chars("An unexpected error occurred with Stylr AI analysis. Please try again.")

\* Lines 60-81: the user-facing message.
UserFriendly(errorString, sanitizedMessage) ==
    IF IncludesAny(errorString, {"timeout", "timed out"}) THEN MsgTimeout
    ELSE IF IncludesAny(errorString, {"network", "fetch", "connection"}) THEN MsgConnection
    ELSE IF IncludesAny(errorString, {"rate limit", "429", "busy"}) THEN MsgBusy
    ELSE IF IncludesAny(errorString, {"invalid", "malformed", "parse"}) THEN MsgInvalid
    ELSE IF IncludesAny(errorString, {"unauthorized", "401", "403"}) THEN MsgAuth
    ELSE IF IncludesAny(errorString, {"not found", "404"}) THEN MsgNotFound
    ELSE IF IncludesAny(errorString, {"500", "server error"}) THEN MsgInternal
    ELSE IF sanitizedMessage # <<>> THEN sanitizedMessage
    ELSE MsgGeneric

\* Lines 83-92: the error code.
ErrorCode(errorString) ==
    IF IncludesAny(errorString, {"timeout"}) THEN "TIMEOUT"
    ELSE IF IncludesAny(errorString, {"network", "connection"}) THEN "NETWORK_ERROR"
    ELSE IF IncludesAny(errorString, {"rate limit", "429"}) THEN "RATE_LIMIT"
    ELSE IF IncludesAny(errorString, {"unauthorized", "401"}) THEN "AUTH_ERROR"
    ELSE IF IncludesAny(errorString, {"not found", "404"}) THEN "NOT_FOUND"
    ELSE IF IncludesAny(errorString, {"500", "server"}) THEN "SERVER_ERROR"
    ELSE IF IncludesAny(errorString, {"parse", "json"}) THEN "PARSE_ERROR"
    ELSE IF IncludesAny(errorString, {"validation", "invalid url"}) THEN "VALIDATION_ERROR"
    ELSE "UNKNOWN_ERROR"

\* sanitizeError (lines 18-100) for an error whose message is text; an empty
\* message is replaced by String(error), "Error".
sanitizeError(text) ==
    LET errorMessage == IF text = <<>> THEN Chars("Error") ELSE text
        errorString  == ToLower(errorMessage)
        sanitizedMessage == ApplyPatterns(errorMessage, sanitizationMap)
    IN  [message |-> sanitizedMessage,
         code |-> ErrorCode(errorString),
         userFriendly |-> UserFriendly(errorString, sanitizedMessage)]

\* createErrorResponse (lines 142-151).
createErrorResponse(text) ==
    [error |-> sanitizeError(text).userFriendly, code |-> sanitizeError(text).code]

\* Pieces of raw error messages: vendor names, the clients' own wording, and
\* arbitrary text an upstream message may carry.
ErrFragments ==
    {"Replicate API error", "GPT-5", "openai gpt4", "Google PageSpeed", "Lighthouse audit",
     "prediction failed", "json parse", "timed out", "404 not found", "pt-5", "eplicate", ""}

ErrSeparators == {"", " ", ": "}

RawMessages ==
    {Chars(a) \o Chars(sep) \o Chars(b) : a \in ErrFragments, sep \in ErrSeparators,
                                           b \in ErrFragments}

NoSanitized == [message |-> <<>>, code |-> "none", userFriendly |-> <<>>]
NoErrResponse == [error |-> <<>>, code |-> "none"]

ErrInit ==
    /\ erPc = "raised"
    /\ erRaw \in RawMessages
    /\ erOut = NoSanitized
    /\ erResp = NoErrResponse

ErrIdle ==
    /\ erPc = "off"
    /\ erRaw = <<>>
    /\ erOut = NoSanitized
    /\ erResp = NoErrResponse

\* logError (lines 105-136) returns sanitizeError's result.
ErrLog ==
    /\ erPc = "raised"
    /\ erPc' = "logged"
    /\ erOut' = sanitizeError(erRaw)
    /\ UNCHANGED <<erRaw, erResp>>
    /\ UNCHANGED notErr

ErrRespond ==
    /\ erPc \in {"raised", "logged"}
    /\ erPc' = "responded"
    /\ erResp' = createErrorResponse(erRaw)
    /\ UNCHANGED <<erRaw, erOut>>
    /\ UNCHANGED notErr

NextErr == ErrLog \/ ErrRespond

----------------------------------------------------------------------------
(* Content enhancement (enhanceContentWithLLM): the reply post-processing   *)

\* A member of the parsed reply: absent, a primitive (a non-empty string or
\* a number), or an object whose current member is missing or of a given
\* origin ("reply", "product", "placeholder").
Absent == [t |-> "absent", current |-> "missing"]
Primitive == [t |-> "prim", current |-> "missing"]
SubObject(current) == [t |-> "obj", current |-> current]

\* !member
MemberFalsy(member) == member.t = "absent"

ReplyMembers == {Absent, Primitive, SubObject("missing"), SubObject("reply")}

\* The value parseJSONRobust returned is not a plain object (a string, a
\* number, null or an array).
NotAnObject == [kind |-> "other"]

\* The replies: every combination of the six members, or not an object.
Replies ==
    {NotAnObject} \cup
    [kind : {"object"}, summary : {Absent, Primitive, SubObject("missing")},
     title : ReplyMembers, metaDescription : ReplyMembers,
     description : ReplyMembers, features : ReplyMembers,
     contentQualityScore : {"absent", "number", "string"}]

\* The caller's product data: whether title, description and metaDescription
\* are non-empty and how many features there are.
ProductSamples ==
    {[title |-> TRUE, description |-> TRUE, metaDescription |-> TRUE, features |-> 2],
     [title |-> FALSE, description |-> FALSE, metaDescription |-> FALSE, features |-> 0],
     [title |-> TRUE, description |-> FALSE, metaDescription |-> TRUE, features |-> 0]}

EnhThrew == [kind |-> "threw"]

\* if (member && !member.current) member.current = productValue || 'Not available'
\* An assignment to a property of a primitive raises a TypeError in module
\* code; a raised error is reported as "raise".
BackFill(member, hasProductValue) ==
    IF MemberFalsy(member) \/ member.current # "missing" THEN member
    ELSE IF member.t = "prim" THEN [t |-> "raise", current |-> "missing"]
    ELSE SubObject(IF hasProductValue THEN "product" ELSE "placeholder")

\* Lines 523-543 of replicate.ts (485-506 of part_001): the four back-fills.
MergeCurrent(reply, productData) ==
    [reply EXCEPT
        !.title = BackFill(@, productData.title),
        !.description = BackFill(@, productData.description),
        !.features = BackFill(@, productData.features > 0),
        !.metaDescription = BackFill(@, productData.metaDescription)]

Raised(merged) ==
    \E member \in {merged.title, merged.description, merged.features,
                   merged.metaDescription} : member.t = "raise"

\* enhanceContentWithLLM of app/lib/replicate.ts from the parsed reply on
\* (lines 505-555): missing required members are only logged.
enhanceContentWithLLM(reply, productData) ==
    IF reply.kind # "object" THEN EnhThrew
    ELSE LET merged == MergeCurrent(reply, productData)
         IN  IF Raised(merged) THEN EnhThrew ELSE merged

\* Lines 447-481 of part_001: members that are falsy are created with
\* defaults (without a current member), and a contentQualityScore that is
\* not a number becomes 50.
CreateDefaults(reply) ==
    [reply EXCEPT
        !.summary = IF MemberFalsy(@) THEN SubObject("missing") ELSE @,
        !.title = IF MemberFalsy(@) THEN SubObject("missing") ELSE @,
        !.description = IF MemberFalsy(@) THEN SubObject("missing") ELSE @,
        !.features = IF MemberFalsy(@) THEN SubObject("missing") ELSE @,
        !.metaDescription = IF MemberFalsy(@) THEN SubObject("missing") ELSE @,
        !.contentQualityScore = "number"]

\* enhanceContentWithLLM of part_001 from the parsed reply on (lines 439-517).
enhanceContentWithLLMDefaults(reply, productData) ==
    IF reply.kind # "object" THEN EnhThrew
    ELSE LET merged == MergeCurrent(CreateDefaults(reply), productData)
         IN  IF Raised(merged) THEN EnhThrew ELSE merged

NoReply == [kind |-> "none"]

EnhInit ==
    /\ enPc = "idle"
    /\ enVersion = "none"
    /\ enProduct = CHOOSE p \in ProductSamples : p.features = 0 /\ ~p.title
    /\ enReply = NoReply
    /\ enOut = NoReply

EnhIdle == EnhInit

\* The handler calls enhanceContentWithLLM with the snapshot's content.
EnhCall ==
    /\ enPc = "idle"
    /\ \E p \in ProductSamples, v \in {"lib", "part_001"} :
          /\ enProduct' = p
          /\ enVersion' = v
    /\ enPc' = "called"
    /\ UNCHANGED <<enReply, enOut>>
    /\ UNCHANGED notEnh

\* callReplicateLLM resolved and parseJSONRobust returned a value.
EnhReplyParsed ==
    /\ enPc = "called"
    /\ \E r \in Replies : enReply' = r
    /\ enPc' = "replied"
    /\ UNCHANGED <<enVersion, enProduct, enOut>>
    /\ UNCHANGED notEnh

\* The validation and merge of the parsed reply, and the return or throw.
EnhFinish ==
    /\ enPc = "replied"
    /\ enOut' = IF enVersion = "lib"
                THEN enhanceContentWithLLM(enReply, enProduct)
                ELSE enhanceContentWithLLMDefaults(enReply, enProduct)
    /\ enPc' = IF enOut'.kind = "threw" THEN "threw" ELSE "returned"
    /\ UNCHANGED <<enVersion, enProduct, enReply>>
    /\ UNCHANGED notEnh

NextEnh == EnhCall \/ EnhReplyParsed \/ EnhFinish

----------------------------------------------------------------------------
(* Page extraction (scrapeProductPage) and the analyze handler (POST)       *)

\* A JavaScript value in a field that is meant to hold a string: undefined,
\* null, a string (its length and the length of its trim()), or a number n.
JsUndefined == [t |-> "undefined", len |-> 0, trim |-> 0, n |-> 0]
JsNull == [t |-> "null", len |-> 0, trim |-> 0, n |-> 0]
JsString(len, trim) == [t |-> "string", len |-> len, trim |-> trim, n |-> 0]
JsNumber(n) == [t |-> "number", len |-> 0, trim |-> 0, n |-> n]
\* The outcome of an expression that raised a TypeError.
JsRaise == [t |-> "raise", len |-> 0, trim |-> 0, n |-> 0]

\* The string literals of the sources, by length: '', 'Product',
\* 'Add to Cart', 'In Stock'.
LitEmpty == JsString(0, 0)
LitProduct == JsString(7, 7)
LitAddToCart == JsString(11, 11)
LitInStock == JsString(8, 8)

\* Boolean(value)
Truthy(value) ==
    \/ value.t = "string" /\ value.len > 0
    \/ value.t = "number" /\ value.n # 0

\* Mutant of JsOr: the default is dropped.
JsOrFirst(a, b) == a

\* a || b
JsOr(a, b) == IF Truthy(a) THEN a ELSE b

\* value.trim(): a TypeError unless the value is a string.
TrimOf(value) ==
    IF value.t = "string" THEN JsString(value.trim, value.trim) ELSE JsRaise

\* The fields extractProductDataWithLLM is asked for that are merged as strings.
ExFields == {"title", "metaDescription", "h1", "description", "price", "productType",
             "category", "ctaText", "brand", "sku", "availability"}

\* extractedData.features: undefined, or an array of n elements of which
\* blank are blank strings; bad when an element is a number.
NoFeatures == [t |-> "undefined", n |-> 0, blank |-> 0, bad |-> FALSE]
Features(n, blank, bad) == [t |-> "array", n |-> n, blank |-> blank, bad |-> bad]

\* A field value the model supplied as asked: a string with outer blanks.
Supplied == JsString(42, 40)

\* Replies with every subset of the string fields left out.
LeftOutSamples ==
    { [fields |-> [f \in ExFields |-> IF f \in S THEN JsUndefined ELSE Supplied],
       features |-> Features(3, 1, FALSE), schema |-> "null"] : S \in SUBSET ExFields }

CompleteSample ==
    [fields |-> [f \in ExFields |-> Supplied], features |-> Features(3, 1, FALSE),
     schema |-> "null"]

\* Replies with one member that is null, empty, blank, a number, or a
\* features / schema member of another shape.
OddSamples ==
    { [CompleteSample EXCEPT !.fields[f] = v] :
        f \in ExFields,
        v \in {JsNull, LitEmpty, JsString(2, 0), JsNumber(42), JsNumber(0)} }
    \cup { [CompleteSample EXCEPT !.features = x] :
             x \in {NoFeatures, Features(0, 0, FALSE), Features(2, 0, TRUE)} }
    \cup { [CompleteSample EXCEPT !.schema = "Product"] }

ExtractedSamples == LeftOutSamples \cup OddSamples

NoExtracted == [fields |-> [f \in ExFields |-> JsUndefined], features |-> NoFeatures,
                schema |-> "null"]

\* Every member of the reply is a string, null or left out.
WellTyped(extractedData) ==
    /\ \A f \in ExFields : extractedData.fields[f].t \in {"undefined", "null", "string"}
    /\ ~extractedData.features.bad

\* What scrapeTechnicalSEO returns (html-scraper.ts:185-194): trimmed texts,
\* '' when the element is missing.
TechSamples ==
    {[metaTitle |-> JsString(45, 45), metaDescription |-> JsString(140, 140),
      h1 |-> JsString(12, 12), h1Count |-> 1, schema |-> "Product"],
     [metaTitle |-> LitEmpty, metaDescription |-> LitEmpty,
      h1 |-> LitEmpty, h1Count |-> 0, schema |-> "null"],
     [metaTitle |-> JsString(45, 45), metaDescription |-> LitEmpty,
      h1 |-> LitEmpty, h1Count |-> 0, schema |-> "null"],
     [metaTitle |-> LitEmpty, metaDescription |-> JsString(140, 140),
      h1 |-> JsString(12, 12), h1Count |-> 2, schema |-> "null"]}

StringFields == {"title", "description", "metaTitle", "metaDescription", "h1", "price",
                 "productType", "category", "ctaText", "brand", "sku", "availability"}

\* The description fallback of both scrapers: an empty description is
\* replaced by a meta description of positive length.
DescriptionFallback(description, metaDescription) ==
    IF description.len = 0 /\ Truthy(metaDescription)
       /\ metaDescription.t = "string" /\ metaDescription.len > 0
    THEN metaDescription ELSE description

\* extractedData.features.filter(f => f && f.trim().length > 0), [] when
\* features is not a non-empty array; -1 when the callback raised.
FilterFeatures(features) ==
    IF features.t # "array" \/ features.n = 0 THEN 0
    ELSE IF features.bad THEN 0 - 1
    ELSE features.n - features.blank

\* mergedData of the hybrid scrapeProductPage (lines 305-330 and 334-352).
MergeHybrid(url, technicalSEO, extractedData) ==
    LET ex == extractedData.fields
        metaDescription == JsOr(JsOr(technicalSEO.metaDescription, ex["metaDescription"]),
                                  LitEmpty)
        description == TrimOf(JsOr(ex["description"], LitEmpty))
    IN  [metaTitle |-> JsOr(JsOr(technicalSEO.metaTitle, ex["title"]), LitEmpty),
         metaDescription |-> metaDescription,
         h1 |-> JsOr(JsOr(JsOr(technicalSEO.h1, ex["h1"]), ex["title"]), LitEmpty),
         h1Count |-> technicalSEO.h1Count,
         schema |-> IF technicalSEO.schema # "null" THEN technicalSEO.schema
                    ELSE extractedData.schema,
         title |-> JsOr(JsOr(ex["title"], technicalSEO.h1), LitEmpty),
         description |-> IF description.t = "raise" THEN description
                         ELSE DescriptionFallback(description, metaDescription),
         features |-> FilterFeatures(extractedData.features),
         price |-> TrimOf(JsOr(ex["price"], LitEmpty)),
         productType |-> TrimOf(JsOr(ex["productType"], LitProduct)),
         category |-> TrimOf(JsOr(ex["category"], LitEmpty)),
         ctaText |-> TrimOf(JsOr(ex["ctaText"], LitAddToCart)),
         brand |-> TrimOf(JsOr(ex["brand"], LitEmpty)),
         sku |-> TrimOf(JsOr(ex["sku"], LitEmpty)),
         availability |-> TrimOf(JsOr(ex["availability"], LitInStock)),
         url |-> url]

\* mergedData of the HTML-only scrapeProductPage (part_006, lines 36-80).
MergeHtml(url, technicalSEO) ==
    LET metaDescription == JsOr(technicalSEO.metaDescription, LitEmpty)
    IN  [metaTitle |-> JsOr(technicalSEO.metaTitle, LitEmpty),
         metaDescription |-> metaDescription,
         h1 |-> JsOr(technicalSEO.h1, LitEmpty),
         h1Count |-> technicalSEO.h1Count,
         schema |-> technicalSEO.schema,
         title |-> JsOr(JsOr(technicalSEO.h1, technicalSEO.metaTitle), LitProduct),
         description |-> DescriptionFallback(metaDescription, metaDescription),
         features |-> 0,
         price |-> LitEmpty,
         productType |-> LitProduct,
         category |-> LitEmpty,
         ctaText |-> LitAddToCart,
         brand |-> LitEmpty,
         sku |-> LitEmpty,
         availability |-> LitInStock,
         url |-> url]

\* An expression of the merge raised: the catch block rethrows
\* 'Failed to extract product data'.
MergeRaised(mergedData) ==
    \/ \E f \in StringFields : mergedData[f].t = "raise"
    \/ mergedData.features < 0

\* The minimal snapshot of the handler (part_008, lines 47-80).
FallbackSnapshot(url) ==
    [metaTitle |-> LitEmpty, metaDescription |-> LitEmpty, h1 |-> LitProduct, h1Count |-> 1,
     schema |-> "null", title |-> LitProduct, description |-> LitEmpty, features |-> 0,
     price |-> LitEmpty, productType |-> LitProduct, category |-> LitEmpty,
     ctaText |-> LitAddToCart, brand |-> LitEmpty, sku |-> LitEmpty,
     availability |-> LitInStock, url |-> url]

NoScrapedData == FallbackSnapshot(<<>>)

\* The hostname of an absolute http(s) URL.
Hostname(url) ==
    LET start == IF StartsWith(url, HttpsPrefix) THEN Len(HttpsPrefix) + 1
                 ELSE Len(HttpPrefix) + 1
    IN  SubSeq(url, start, FirstOf(url, start, {"/", "?", "#", ":"}) - 1)

\* isValidProductURL (utils.ts:8-23)
isValidProductURL(url) ==
    /\ ParseURL(url).ok
    /\ ~Includes(Hostname(url), Chars("localhost"))
    /\ ~Includes(Hostname(url), Chars("127.0.0.1"))
    /\ ~Includes(Hostname(url), Chars("0.0.0.0"))

UrlLocalhost == Chars("http://localhost/p")

\* The url member of the request body: missing, a number, or a text; the
\* body itself may fail to parse.
Bodies ==
    {[t |-> "malformed", text |-> <<>>], [t |-> "undefined", text |-> <<>>],
     [t |-> "number", text |-> <<>>], [t |-> "string", text |-> <<>>],
     [t |-> "string", text |-> UrlRelative], [t |-> "string", text |-> UrlLocalhost],
     [t |-> "string", text |-> UrlWidget], [t |-> "string", text |-> UrlHttpDirty]}

\* The snapshot as analyzeSEO reads it; a field that is falsy counts as
\* missing whatever its type.
SeoText(value) == IF value.t = "string" THEN [len |-> value.len, trim |-> value.trim]
                  ELSE Text(0)

SeoInput(d) ==
    [metaTitle |-> SeoText(d.metaTitle), metaDescription |-> SeoText(d.metaDescription),
     h1 |-> SeoText(d.h1), h1Count |-> d.h1Count, schema |-> d.schema, url |-> d.url,
     description |-> SeoText(d.description), features |-> d.features]

\* analyzeSEO calls trim() on metaTitle, metaDescription, h1 and description
\* when they are truthy (lines 26, 65, 104, 197): a TypeError for a number.
SeoRaises(d) ==
    \E f \in {"metaTitle", "metaDescription", "h1", "description"} :
        Truthy(d[f]) /\ d[f].t # "string"

\* The score members of a response that carries none.
NoScores == [overallScore |-> NoOverall, potentialScore |-> 0, scoreImprovement |-> 0]

NoResponse == [status |-> 0, success |-> FALSE, seo |-> "none", performance |-> "none",
               enhancement |-> "none", scores |-> NoScores]

ErrorResponse(status) == [NoResponse EXCEPT !.status = status]

NoBranches == [performance |-> "notstarted", enhancement |-> "notstarted"]

HandlerInit ==
    /\ hPc = "received"
    /\ hBody \in Bodies
    /\ hVariant \in {"hybrid", "html"}
    /\ hExtracted = NoExtracted
    /\ scrapedData = NoScrapedData
    /\ hFallback = FALSE
    /\ hSeo = NoAnalysis
    /\ hBranch = NoBranches
    /\ hOrder = <<>>
    /\ hResp = NoResponse

HandlerIdle ==
    /\ hPc = "off"
    /\ hBody = [t |-> "undefined", text |-> <<>>]
    /\ hVariant = "html"
    /\ hExtracted = NoExtracted
    /\ scrapedData = NoScrapedData
    /\ hFallback = FALSE
    /\ hSeo = NoAnalysis
    /\ hBranch = NoBranches
    /\ hOrder = <<>>
    /\ hResp = NoResponse

\* request.json() raised: the outer catch answers 500 (lines 15, 314-324).
HBodyMalformed ==
    /\ hPc = "received"
    /\ hBody.t = "malformed"
    /\ hPc' = "responded"
    /\ hResp' = ErrorResponse(500)
    /\ UNCHANGED <<hBody, hVariant, hExtracted, scrapedData, hFallback, hSeo, hBranch, hOrder>>
    /\ UNCHANGED notHandler

\* Lines 19-31: a missing, non-string or invalid url is answered with 400.
HRejectUrl ==
    /\ hPc = "received"
    /\ hBody.t # "malformed"
    /\ \/ hBody.t # "string"
       \/ hBody.text = <<>>
       \/ ~isValidProductURL(hBody.text)
    /\ hPc' = "responded"
    /\ hResp' = ErrorResponse(400)
    /\ UNCHANGED <<hBody, hVariant, hExtracted, scrapedData, hFallback, hSeo, hBranch, hOrder>>
    /\ UNCHANGED notHandler

ValidRequest == hBody.t = "string" /\ hBody.text # <<>> /\ isValidProductURL(hBody.text)

\* Lines 36-40: scrapeProductPage resolved.
HScrape ==
    /\ hPc = "received"
    /\ ValidRequest
    /\ \E technicalSEO \in TechSamples :
          \/ /\ hVariant = "html"
             /\ hExtracted' = NoExtracted
             /\ scrapedData' = MergeHtml(hBody.text, technicalSEO)
             /\ hFallback' = FALSE
          \/ /\ hVariant = "hybrid"
             /\ \E extractedData \in ExtractedSamples :
                   LET mergedData == MergeHybrid(hBody.text, technicalSEO, extractedData)
                   IN  /\ hExtracted' = extractedData
                       /\ hFallback' = MergeRaised(mergedData)
                       /\ scrapedData' = IF MergeRaised(mergedData)
                                         THEN FallbackSnapshot(hBody.text)
                                         ELSE mergedData
    /\ hPc' = "scraped"
    /\ UNCHANGED <<hBody, hVariant, hSeo, hBranch, hOrder, hResp>>
    /\ UNCHANGED notHandler

\* Lines 41-82: scrapeTechnicalSEO or extractProductDataWithLLM rejected, the
\* handler continues with its minimal snapshot.
HScrapeFailed ==
    /\ hPc = "received"
    /\ ValidRequest
    /\ scrapedData' = FallbackSnapshot(hBody.text)
    /\ hFallback' = TRUE
    /\ hPc' = "scraped"
    /\ UNCHANGED <<hBody, hVariant, hExtracted, hSeo, hBranch, hOrder, hResp>>
    /\ UNCHANGED notHandler

\* Lines 97-121: the array passed to Promise.allSettled is built.  analyzeSEO
\* is an ordinary function: it runs to completion here, and an error it
\* raises leaves the try block before the other two calls are made (lines
\* 314-324).
HFanOut ==
    /\ hPc = "scraped"
    /\ IF SeoRaises(scrapedData)
       THEN /\ hPc' = "responded"
            /\ hResp' = ErrorResponse(500)
            /\ UNCHANGED <<hSeo, hBranch>>
       ELSE /\ hPc' = "waiting"
            /\ hSeo' = analyzeSEO(SeoInput(scrapedData))
            /\ hBranch' = [performance |-> "pending", enhancement |-> "pending"]
            /\ UNCHANGED hResp
    /\ UNCHANGED <<hBody, hVariant, hExtracted, scrapedData, hFallback, hOrder>>
    /\ UNCHANGED notHandler

\* One of the two promises settles, fulfilled or rejected.
HSettle(branch) ==
    /\ hPc = "waiting"
    /\ hBranch[branch] = "pending"
    /\ \E outcome \in {"fulfilled", "rejected"} :
          hBranch' = [hBranch EXCEPT ![branch] = outcome]
    /\ hOrder' = Append(hOrder, branch)
    /\ UNCHANGED <<hPc, hBody, hVariant, hExtracted, scrapedData, hFallback, hSeo, hResp>>
    /\ UNCHANGED notHandler

HSettleAny == \E branch \in {"performance", "enhancement"} : HSettle(branch)

\* Lines 123-182: the value of a settled promise or its fallback.
Substitute(status) == IF status = "fulfilled" THEN "value" ELSE "fallback"

\* What fetchPerformanceMetrics resolves with, as far as the scores read it:
\* overallScore, mobile.score and images.unoptimizedCount.
PerfValueSamples ==
    {[overallScore |-> 100, mobile |-> 100, unoptimizedCount |-> 0],
     [overallScore |-> 35, mobile |-> 20, unoptimizedCount |-> 7]}

\* Lines 137-143: the metrics substituted for a rejected performance promise.
PerfFallback == [overallScore |-> 50, mobile |-> 50, unoptimizedCount |-> 2]

\* The contentQualityScore member of the object enhanceContentWithLLM of
\* replicate.ts resolves with; the reply's member is passed on as it came: a
\* number, a text that is not a number ("high"), or nothing.
QualitySamples == {JsNumber(92), JsNumber(30), JsString(4, 4), JsUndefined}

\* Line 181: contentQualityScore of the fallback for a rejected enhancement.
QualityFallback == JsNumber(50)

\* A score that is NaN; JSON.stringify writes it as null.
NaNScore == Undefined

\* calculateOverallScore for a contentQualityScore that is a text: Math.min(100,
\* text) is NaN, so is the weighted sum, and no comparison with NaN holds.
OverallScoreNaN(seoScore, perf) ==
    [total |-> NaNScore,
     breakdown |-> [content |-> NaNScore, seo |-> Clamp100(seoScore),
                    performance |-> Clamp100(perf.overallScore),
                    mobile |-> Clamp100(perf.mobile)],
     label |-> "Poor",
     color |-> "red"]

\* Lines 186-236 and generateRecommendations (lines 334-417): the scores of
\* the success response.  The handler passes contentQualityScore || 50 to
\* calculateOverallScore; with the values the three analyses can deliver
\* neither calculateOverallScore nor estimatePotentialScore nor
\* generateRecommendations raises, so none of the catch blocks runs.
HandlerScores(seoAnalysis, perf, quality) ==
    LET contentQualityScore == JsOr(quality, JsNumber(50))
        in == [content |-> contentQualityScore.n, seo |-> seoAnalysis.score,
               performance |-> perf.overallScore, mobile |-> perf.mobile]
    IN  IF contentQualityScore.t = "number"
        THEN {[overallScore |-> OverallScoreOf(in, total),
               potentialScore |-> estimatePotentialScore(OverallScoreOf(in, total),
                                                         seoAnalysis.checks,
                                                         perf.unoptimizedCount),
               scoreImprovement |->
                   estimatePotentialScore(OverallScoreOf(in, total), seoAnalysis.checks,
                                          perf.unoptimizedCount) - OrElse(total, 50)] :
              total \in TotalsOf(in)}
        ELSE {[overallScore |-> OverallScoreNaN(seoAnalysis.score, perf),
               potentialScore |-> NaNScore,
               scoreImprovement |-> NaNScore]}

\* Promise.allSettled resolved; lines 123-312 build the response, every later
\* step having its own fallback.
HRespond ==
    /\ hPc = "waiting"
    /\ hBranch.performance # "pending"
    /\ hBranch.enhancement # "pending"
    /\ \E perf \in IF hBranch.performance = "fulfilled" THEN PerfValueSamples
                    ELSE {PerfFallback},
          quality \in IF hBranch.enhancement = "fulfilled" THEN QualitySamples
                       ELSE {QualityFallback} :
          \E scores \in HandlerScores(hSeo, perf, quality) :
             hResp' = [status |-> 200, success |-> TRUE, seo |-> "value",
                       performance |-> Substitute(hBranch.performance),
                       enhancement |-> Substitute(hBranch.enhancement),
                       scores |-> scores]
    /\ hPc' = "responded"
    /\ UNCHANGED <<hBody, hVariant, hExtracted, scrapedData, hFallback, hSeo, hBranch, hOrder>>
    /\ UNCHANGED notHandler

NextHandler ==
    HBodyMalformed \/ HRejectUrl \/ HScrape \/ HScrapeFailed \/ HFanOut \/ HSettleAny
    \/ HRespond

----------------------------------------------------------------------------
(* HTML scraper: structured data (scrapeTechnicalSEO, lines 255-282)        *)

\* A node of a JSON-LD document: its @type and a name that tells the nodes of
\* a page apart.  LdNull is a null array item.
LdNode(type, name) == [type |-> type, name |-> name]
LdNull == LdNode("null", <<>>)
SchemaNull == LdNode("none", <<>>)

\* The content of one script: text that JSON.parse rejects (or an empty
\* script), a top-level object with its @graph list (<<>> when it has none),
\* or a top-level array.
LdInvalid        == [shape |-> "invalid", node |-> SchemaNull, items |-> <<>>]
LdObject(n, g)   == [shape |-> "object", node |-> n, items |-> g]
LdArray(items)   == [shape |-> "array", node |-> SchemaNull, items |-> items]

\* Array.prototype.find(item => item['@type'] === 'Product'): the first
\* Product item; reading a member of a null item raises a TypeError.
RECURSIVE FindProduct(_)
FindProduct(items) ==
    IF items = <<>> THEN [threw |-> FALSE, found |-> SchemaNull]
    ELSE IF Head(items) = LdNull THEN [threw |-> TRUE, found |-> SchemaNull]
    ELSE IF Head(items).type = "Product" THEN [threw |-> FALSE, found |-> Head(items)]
    ELSE FindProduct(Tail(items))

\* The body of the .each callback (lines 257-281): the value of schema after
\* the script block, given its value before.  A script that does not parse
\* and a TypeError raised by a null item are caught and leave schema alone.
SchemaAfter(current, block) ==
    IF block.shape = "invalid" THEN current
    ELSE IF block.shape = "object" /\ block.node.type = "Product" THEN block.node
    ELSE LET r == FindProduct(block.items)
         IN  IF r.threw \/ r.found = SchemaNull THEN current ELSE r.found

\* Largest number of ld+json scripts on a sample page.
MaxBlocks == 2

\* Contents the i-th script of a page may have; node names carry i.
BlockSamples(i) ==
    {LdInvalid,
     LdObject(LdNode("Product", <<i, 0>>), <<>>),
     LdObject(LdNode("Organization", <<i, 0>>), <<>>),
     LdObject(LdNode("Product", <<i, 0>>), <<LdNode("Product", <<i, 1>>)>>),
     LdObject(LdNode("WebPage", <<i, 0>>),
              <<LdNode("BreadcrumbList", <<i, 1>>), LdNode("Product", <<i, 2>>),
                LdNode("Product", <<i, 3>>)>>),
     LdArray(<<>>),
     LdArray(<<LdNode("Organization", <<i, 1>>)>>),
     LdArray(<<LdNode("Organization", <<i, 1>>), LdNode("Product", <<i, 2>>),
               LdNode("Product", <<i, 3>>)>>),
     LdArray(<<LdNull, LdNode("Product", <<i, 2>>)>>)}

Pages ==
    UNION {{blocks \in [1..n -> UNION {BlockSamples(i) : i \in 1..n}] :
               \A i \in 1..n : blocks[i] \in BlockSamples(i)} : n \in 0..MaxBlocks}

ImageOff ==
    /\ imPc = "off"
    /\ imgEl = <<>>
    /\ isProductImage = FALSE

SchemaOff ==
    /\ ldPc = "off"
    /\ ldBlocks = <<>>
    /\ ldIdx = 0
    /\ schema = SchemaNull

ScrapeIdle == SchemaOff /\ ImageOff

\* let schema = null, before the scripts are visited.
SchemaInit ==
    /\ ldPc = "each"
    /\ ldBlocks \in Pages
    /\ ldIdx = 1
    /\ schema = SchemaNull
    /\ ImageOff

\* The .each callback runs on the next script.
SchemaEach ==
    /\ ldPc = "each"
    /\ ldIdx <= Len(ldBlocks)
    /\ schema' = SchemaAfter(schema, ldBlocks[ldIdx])
    /\ ldIdx' = ldIdx + 1
    /\ UNCHANGED <<ldPc, ldBlocks, imPc, imgEl, isProductImage>>
    /\ UNCHANGED notScrape

\* No script is left: schema goes into the returned TechnicalSEOData.
SchemaDone ==
    /\ ldPc = "each"
    /\ ldIdx > Len(ldBlocks)
    /\ ldPc' = "done"
    /\ UNCHANGED <<ldBlocks, ldIdx, schema, imPc, imgEl, isProductImage>>
    /\ UNCHANGED notScrape

NextSchema == SchemaEach \/ SchemaDone

----------------------------------------------------------------------------
(* HTML scraper: product images (isLikelyProductImage, lines 13-115)        *)

\* A width or height as parseInt leaves it: a number, or NaN for text that
\* does not start with digits ("auto"); 0 when the attribute is missing.
Dim(n) == [nan |-> FALSE, n |-> n]
NaNDim == [nan |-> TRUE, n |-> 0]

\* Comparisons of JavaScript numbers: every comparison with NaN is false.
Gt(a, n) == ~a.nan /\ a.n > n
Lt(a, n) == ~a.nan /\ a.n < n
Ge(a, n) == ~a.nan /\ a.n >= n

\* String.prototype.endsWith
EndsWith(s, suffix) ==
    Len(s) >= Len(suffix) /\ SubSeq(s, Len(s) - Len(suffix) + 1, Len(s)) = suffix

excludePatterns ==
    {"icon", "logo", "favicon", "sprite", "spacer", "pixel",
     "button", "badge", "flag", "social", "share", "avatar",
     "thumbnail", "thumb", "placeholder", "loading", "spinner",
     "arrow", "chevron", "close", "menu", "hamburger", "nav",
     "ad", "advertisement", "banner", "promo"}

productPatterns ==
    {"product", "item", "goods", "merchandise", "catalog",
     "media", "image", "photo", "picture", "gallery",
     "cdn", "assets", "uploads", "images", "pics"}

productContainerPatterns ==
    {"product", "gallery", "carousel", "slider", "main-image",
     "featured", "hero", "banner-image", "product-image"}

\* An <img> element as the function sees it: src, its own class and id, the
\* class and id of its parent, its alt text, and the two parsed dimensions.
Img(src, class, id, parentClass, parentId, alt, width, height) ==
    [src |-> Chars(src), class |-> Chars(class), id |-> Chars(id),
     parentClass |-> Chars(parentClass), parentId |-> Chars(parentId),
     alt |-> Chars(alt), width |-> width, height |-> height]

\* Mutant of isLikelyProductImage: the URL allowlist is consulted first.
isLikelyProductImageAllowFirst(el) ==
    LET srcLower == ToLower(el.src)
        combinedText == srcLower \o <<" ">> \o ToLower(el.class) \o <<" ">> \o ToLower(el.id)
                        \o <<" ">> \o ToLower(el.parentClass) \o <<" ">> \o ToLower(el.parentId)
        alt == Trim(el.alt)
    IN  IF IncludesAny(srcLower, productPatterns) THEN TRUE
        ELSE IF IncludesAny(combinedText, excludePatterns) THEN FALSE
        ELSE IF Gt(el.width, 0) /\ Gt(el.height, 0)
                /\ (Lt(el.width, 100) \/ Lt(el.height, 100)) THEN FALSE
        ELSE IF StartsWith(el.src, Chars("data:")) \/ Includes(el.src, Chars("base64")) THEN FALSE
        ELSE IF EndsWith(srcLower, Chars(".svg"))
                /\ (Lt(el.width, 200) \/ Lt(el.height, 200)) THEN FALSE
        ELSE IF \E p \in productContainerPatterns :
                   Includes(ToLower(el.parentClass), Chars(p))
                   \/ Includes(ToLower(el.parentId), Chars(p)) THEN TRUE
        ELSE IF Len(alt) > 10 /\ ~IncludesAny(ToLower(alt), excludePatterns) THEN TRUE
        ELSE IF Gt(el.width, 0) /\ Gt(el.height, 0)
             THEN Ge(el.width, 200) /\ Ge(el.height, 200)
        ELSE TRUE

\* isLikelyProductImage($img, src, width, height, baseUrl)
isLikelyProductImage(el) ==
    LET srcLower == ToLower(el.src)
        imgClass == ToLower(el.class)
        imgId == ToLower(el.id)
        parentClass == ToLower(el.parentClass)
        parentId == ToLower(el.parentId)
        combinedText == srcLower \o <<" ">> \o imgClass \o <<" ">> \o imgId
                        \o <<" ">> \o parentClass \o <<" ">> \o parentId
        alt == Trim(el.alt)
    IN  IF IncludesAny(combinedText, excludePatterns) THEN FALSE
        ELSE IF Gt(el.width, 0) /\ Gt(el.height, 0)
                /\ (Lt(el.width, 100) \/ Lt(el.height, 100)) THEN FALSE
        ELSE IF StartsWith(el.src, Chars("data:")) \/ Includes(el.src, Chars("base64")) THEN FALSE
        ELSE IF EndsWith(srcLower, Chars(".svg"))
                /\ (Lt(el.width, 200) \/ Lt(el.height, 200)) THEN FALSE
        ELSE IF \E p \in productPatterns :
                   Includes(srcLower, Chars(p)) /\ ~IncludesAny(srcLower, excludePatterns)
             THEN TRUE
        ELSE IF \E p \in productContainerPatterns :
                   Includes(parentClass, Chars(p)) \/ Includes(parentId, Chars(p)) THEN TRUE
        ELSE IF Len(alt) > 10 /\ ~IncludesAny(ToLower(alt), excludePatterns) THEN TRUE
        ELSE IF Gt(el.width, 0) /\ Gt(el.height, 0)
             THEN Ge(el.width, 200) /\ Ge(el.height, 200)
        ELSE TRUE

\* Sample attribute values of the <img> elements of a page.
SrcSamples == {"/icons/logo.svg", "/cdn/products/widget-front.jpg",
               "/cdn/products/icon-cart.png", "/uploads/shoe.jpg", "/x/a.jpg",
               "/x/diagram.svg", "data:image/png;base64,AAAA", "/X/PHOTO.JPG"}
ClassSamples       == {"", "Nav-item"}
IdSamples          == {"", "promo"}
ParentClassSamples == {"", "product-gallery", "social-links"}
ParentIdSamples    == {"", "carousel"}
AltSamples         == {"", "Blue ceramic widget, front view", "Company logo, footer", "widget"}
DimSamples         == {NaNDim, Dim(0), Dim(40), Dim(150), Dim(200), Dim(800)}

ImgSamples ==
    {Img(s, c, i, pc, pi, a, w, h) :
        s \in SrcSamples, c \in ClassSamples, i \in IdSamples,
        pc \in ParentClassSamples, pi \in ParentIdSamples, a \in AltSamples,
        w \in DimSamples, h \in DimSamples}

\* The .each callback of scrapeTechnicalSEO was called with an <img>.
ImageInit ==
    /\ imPc = "found"
    /\ imgEl \in ImgSamples
    /\ isProductImage = FALSE
    /\ SchemaOff

\* Line 231: const isProductImage = isLikelyProductImage(...)
ImageClassify ==
    /\ imPc = "found"
    /\ imPc' = "classified"
    /\ isProductImage' = isLikelyProductImage(imgEl)
    /\ UNCHANGED <<imgEl, ldPc, ldBlocks, ldIdx, schema>>
    /\ UNCHANGED notScrape

NextImage == ImageClassify

InitPerf == PerfInit /\ SeoIdle /\ ScoreIdle /\ LlmIdle /\ JsonIdle /\ ErrIdle /\ EnhIdle /\ HandlerIdle /\ ScrapeIdle

SpecPerf == InitPerf /\ [][NextPerf]_vars

InitProfile == ProfileInit /\ SeoIdle /\ ScoreIdle /\ LlmIdle /\ JsonIdle /\ ErrIdle /\ EnhIdle /\ HandlerIdle /\ ScrapeIdle

SpecProfile == InitProfile /\ [][NextProfile]_vars

InitSEO == SeoInit /\ PerfIdle /\ ScoreIdle /\ LlmIdle /\ JsonIdle /\ ErrIdle /\ EnhIdle /\ HandlerIdle /\ ScrapeIdle

InitScore == ScoreInit /\ PerfIdle /\ SeoIdle /\ LlmIdle /\ JsonIdle /\ ErrIdle /\ EnhIdle /\ HandlerIdle /\ ScrapeIdle

SpecScore == InitScore /\ [][NextScore]_vars

InitLLM == LlmInit /\ PerfIdle /\ SeoIdle /\ ScoreIdle /\ JsonIdle /\ ErrIdle /\ EnhIdle /\ HandlerIdle /\ ScrapeIdle

InitJSON == JsonInit /\ PerfIdle /\ SeoIdle /\ ScoreIdle /\ LlmIdle /\ ErrIdle /\ EnhIdle /\ HandlerIdle /\ ScrapeIdle

SpecJSON == InitJSON /\ [][NextJSON]_vars

InitExtract == ExtractInit /\ PerfIdle /\ SeoIdle /\ ScoreIdle /\ LlmIdle /\ ErrIdle /\ EnhIdle /\ HandlerIdle /\ ScrapeIdle

SpecExtract == InitExtract /\ [][NextExtract]_vars

InitErr == ErrInit /\ PerfIdle /\ SeoIdle /\ ScoreIdle /\ LlmIdle /\ JsonIdle /\ EnhIdle /\ HandlerIdle /\ ScrapeIdle

SpecErr == InitErr /\ [][NextErr]_vars

InitEnh == EnhInit /\ PerfIdle /\ SeoIdle /\ ScoreIdle /\ LlmIdle /\ JsonIdle /\ ErrIdle /\ HandlerIdle /\ ScrapeIdle

SpecEnh == InitEnh /\ [][NextEnh]_vars

InitHandler == HandlerInit /\ PerfIdle /\ SeoIdle /\ ScoreIdle /\ LlmIdle /\ JsonIdle /\ ErrIdle /\ EnhIdle /\ ScrapeIdle

SpecHandler == InitHandler /\ [][NextHandler]_vars

InitSchema == SchemaInit /\ PerfIdle /\ SeoIdle /\ ScoreIdle /\ LlmIdle /\ JsonIdle /\ ErrIdle /\ EnhIdle /\ HandlerIdle

SpecSchema == InitSchema /\ [][NextSchema]_vars

InitImage == ImageInit /\ PerfIdle /\ SeoIdle /\ ScoreIdle /\ LlmIdle /\ JsonIdle /\ ErrIdle /\ EnhIdle /\ HandlerIdle

SpecImage == InitImage /\ [][NextImage]_vars

SpecLLM == InitLLM /\ [][NextLLM]_vars

SpecSEO == InitSEO /\ [][NextSEO]_vars

----------------------------------------------------------------------------
(* Performance client: properties                                           *)

\* C1 (as claimed): fetchPerformanceMetrics never raises; whenever it has
\* finished it has returned a PerformanceMetrics value.
C1_NeverThrows ==
    perfPc = "done" => perfResult.kind = "returned"

AllAnswered503 == \A s \in Strategies : respLog[s] = <<503, 503, 503>>

\* C2: with a well-formed credential, if every request of both profiles
\* was answered 503 (3 requests each, i.e. 2 retries after waits of 1000 and
\* 2000 ms), the call returns exactly the fallback constant.
C2_All503GivesFallback ==
    (perfPc = "done" /\ AllAnswered503) =>
        /\ \A s \in Strategies : requests[s] = 3 /\ waits[s] = <<1000, 2000>>
        /\ perfResult.kind = "returned"
        /\ perfResult.value =
             [desktop |-> [score |-> 50, fcp |-> 2000, lcp |-> 3000, ttfb |-> 500,
                           loadTime |-> 4000, speedIndex |-> 3500],
              mobile  |-> [score |-> 50, fcp |-> 2500, lcp |-> 4000, ttfb |-> 600,
                           loadTime |-> 5000, speedIndex |-> 4500],
              images  |-> [totalSize |-> 1000000, unoptimizedCount |-> 2, totalCount |-> 5,
                           optimizationOpportunities |-> <<>>, formatOptimization |-> <<>>],
              seo     |-> [score |-> 0],
              overallScore |-> 50]

C2_Witness ==
    perfPc = "done" /\ credential = KeyGood /\ AllAnswered503 /\ perfResult.kind = "returned"

OtherStrategy(s) == IF s = "mobile" THEN "desktop" ELSE "mobile"

\* C3: both measurement calls are started together and both run to
\* completion before the result is formed; when exactly one failed, a
\* returned result carries the successful profile's block in both slots and
\* its score as overallScore; after the calls were started, the fallback
\* constant is returned only when both failed.
C3_SettleAll ==
    /\ perfPc = "await" => \A s \in Strategies : requests[s] >= 1
    /\ (perfPc = "done" /\ settleOrder # <<>>) =>
          /\ \A s \in Strategies : pPc[s] \in {"fulfilled", "rejected"} /\ requests[s] >= 1
          /\ Len(settleOrder) = 2
          /\ \A s \in Strategies :
                (pPc[s] = "fulfilled" /\ pPc[OtherStrategy(s)] = "rejected"
                    /\ perfResult.kind = "returned") =>
                   /\ perfResult.value.desktop = Block(pData[s])
                   /\ perfResult.value.mobile = Block(pData[s])
                   /\ perfResult.value.overallScore = pData[s].score
          /\ (perfResult.kind = "returned"
                 /\ perfResult.value.overallScore = 50
                 /\ perfResult.value.mobile.fcp = 2500
                 /\ perfResult.value.desktop.fcp = 2000) =>
                \A s \in Strategies : pPc[s] = "rejected"
          /\ (\A s \in Strategies : pPc[s] = "rejected") =>
                perfResult.kind = "returned" /\ perfResult.value.mobile.fcp = 2500

\* The mobile call failed first, the desktop call still completed afterwards
\* and its data fills both slots.
C3_Witness ==
    /\ perfPc = "done"
    /\ settleOrder = <<"mobile", "desktop">>
    /\ pPc["mobile"] = "rejected" /\ pPc["desktop"] = "fulfilled"
    /\ respLog["desktop"] = <<503, 200>>
    /\ perfResult.kind = "returned"
    /\ perfResult.value.mobile.score = 90

\* The report a profile's block is built from: its own when its call
\* succeeded, the other profile's otherwise.
ReportUsed(s) ==
    IF pPc[s] = "fulfilled" THEN pData[s].lighthouseResult
    ELSE pData[OtherStrategy(s)].lighthouseResult

\* A category score of a report as a percentage, 0 when the report has none.
Percent(score) == IF score = Undefined THEN 0 ELSE score

\* C22: when at least one profile succeeded, a returned result has profile
\* scores in 0..100, overallScore = round(0.6 * mobile + 0.4 * desktop), so
\* 0 <= overallScore <= 100, and the SEO score of the mobile report when it
\* has one, else of the desktop report, else 0.
C22_WeightedOverallAndSeo ==
    (/\ perfPc = "done"
     /\ perfResult.kind = "returned"
     /\ \E s \in Strategies : pPc[s] = "fulfilled") =>
        LET value   == perfResult.value
            mobile  == ReportUsed("mobile")
            desktop == ReportUsed("desktop")
        IN  /\ value.mobile.score = Percent(mobile.perf)
            /\ value.desktop.score = Percent(desktop.perf)
            /\ value.mobile.score \in 0..100
            /\ value.desktop.score \in 0..100
            /\ 10 * value.overallScore - (6 * value.mobile.score + 4 * value.desktop.score)
                  \in (0 - 4)..5
            /\ value.overallScore \in 0..100
            /\ value.seo.score = (IF mobile.seo # Undefined THEN mobile.seo
                                  ELSE IF desktop.seo # Undefined THEN desktop.seo
                                  ELSE 0)

\* Both profiles succeeded with different scores; the mobile report has no
\* SEO category, so the desktop report's SEO score is used.
C22_Witness ==
    /\ perfPc = "done"
    /\ perfResult.kind = "returned"
    /\ pPc["mobile"] = "fulfilled" /\ pPc["desktop"] = "fulfilled"
    /\ pData["mobile"].lighthouseResult.perf = 30
    /\ pData["desktop"].lighthouseResult.perf = 90
    /\ pData["mobile"].lighthouseResult.seo = Undefined
    /\ pData["desktop"].lighthouseResult.seo = 80
    /\ perfResult.value.overallScore = 54
    /\ perfResult.value.seo.score = 80

\* The statuses after which a request is repeated.
RetryableStatuses == {429, 500, 502, 503, 504}

CredentialUnusable ==
    \/ credential = KeyAbsent
    \/ Len(credential) < 4
    \/ SubSeq(credential, 1, 4) # <<"A", "I", "z", "a">>

\* C4: with an absent or malformed credential no measurement request is ever
\* issued and the call returns the fallback constant; a request is issued
\* only after the credential check has passed.
C4_NoRequestWithoutCredential ==
    /\ CredentialUnusable =>
          /\ \A s \in Strategies : requests[s] = 0 /\ pPc[s] = "idle"
          /\ perfPc \in {"start", "done"}
          /\ perfPc = "done" =>
                perfResult.kind = "returned" /\ perfResult.value.overallScore = 50
                  /\ perfResult.value.mobile.lcp = 4000 /\ perfResult.value.images.totalCount = 5
    /\ (\E s \in Strategies : requests[s] > 0) => (~CredentialUnusable /\ perfPc # "start")

C4_Witness ==
    /\ perfPc = "done" /\ credential = KeyBad
    /\ perfResult.kind = "returned" /\ perfResult.value.overallScore = 50
    /\ \A s \in Strategies : requests[s] = 0

----------------------------------------------------------------------------
(* SEO analyzer: properties                                                 *)

CheckNames(checks) == [i \in 1..Len(checks) |-> checks[i].name]

AllFailing(d) ==
    /\ d.metaTitle = Text(0) /\ d.metaDescription = Text(0) /\ d.h1 = Text(0)
    /\ d.schema = "null" /\ d.url = UrlHttpDirty
    /\ d.description = Text(0) /\ d.features = 0

AllFailingRecommendations ==
    << <<"Critical", <<"Meta title is missing">> >>,
       <<"Critical", <<"Meta description is missing">> >>,
       <<"Critical", <<"H1 tag is missing">> >>,
       <<"Critical", <<"Product schema markup not detected (High priority fix!)">> >>,
       <<"Critical", <<"Page is not using HTTPS">> >>,
       <<"Critical", <<"Product description is missing or could not be extracted">> >>,
       <<"High", <<"No key features or bullet points found">> >> >>

\* C6 (as claimed): the all-failing snapshot has raw points 0 and score 0,
\* and its recommendations are the critical messages followed by the
\* high-priority ones.
C6_AllFailingScoresZero ==
    (seoPc = "analyzed" /\ AllFailing(snapshot)) =>
        /\ seoResult.raw = 0
        /\ seoResult.score = 0
        /\ seoResult.recommendations = AllFailingRecommendations

\* C6 (amended): the all-failing snapshot has raw points 8 (5 for the dirty
\* URL warning, 3 for the zero-features warning) and score 9, and its
\* recommendations are the six critical messages followed by the one
\* high-priority message.
C6_AllFailingScoresNine ==
    (seoPc = "analyzed" /\ AllFailing(snapshot)) =>
        /\ ~seoResult.threw
        /\ seoResult.raw = 8
        /\ seoResult.score = 9
        /\ seoResult.recommendations = AllFailingRecommendations
        /\ \A i \in 1..8 : seoResult.checks[i].status # "pass"

C6_Witness ==
    seoPc = "analyzed" /\ AllFailing(snapshot) /\ Len(seoResult.recommendations) = 7

----------------------------------------------------------------------------
(* Score aggregator: properties                                             *)

\* The value a sub-score argument is clamped to, stated without the model's
\* helper operators.
ClampedArg(x) == IF x < 0 THEN 0 ELSE IF x > 100 THEN 100 ELSE x

Unresolved(checks, priority) ==
    Cardinality({i \in 1..Len(checks) :
                    checks[i].priority = priority /\ checks[i].status # "pass"})

\* The uplift of the potential score: 5 per unresolved critical check, 3 per
\* unresolved high-priority check, min(2 * unoptimized images, 10), and 12
\* when the content sub-score is below 85.
Uplift ==
    LET images == IF scIn.unoptimized = Undefined THEN 0 ELSE scIn.unoptimized
    IN  5 * Unresolved(scIn.checks, "critical")
        + 3 * Unresolved(scIn.checks, "high")
        + (IF 2 * images < 10 THEN 2 * images ELSE 10)
        + (IF overall.breakdown.content < 85 THEN 12 ELSE 0)

\* C21: estimatePotentialScore returns current.total + uplift clamped to
\* 0..100, and current.total itself when the uplift is zero.
C21_PotentialIsClampedUplift ==
    scPc = "estimated" =>
        /\ potential = ClampedArg(overall.total + Uplift)
        /\ (/\ Unresolved(scIn.checks, "critical") = 0
            /\ Unresolved(scIn.checks, "high") = 0
            /\ scIn.unoptimized \in {Undefined, 0}
            /\ overall.breakdown.content >= 85) => potential = overall.total

\* Every term of the uplift contributes and the sum stays below the clamp.
C21_Witness ==
    /\ scPc = "estimated"
    /\ Unresolved(scIn.checks, "critical") > 0
    /\ Unresolved(scIn.checks, "high") > 0
    /\ scIn.unoptimized = 3
    /\ overall.breakdown.content < 85
    /\ potential = overall.total + Uplift
    /\ potential < 100

----------------------------------------------------------------------------
(* Text-generation client: properties                                       *)

\* A message flavoured timeout, network, connection, rate limit, 429, 502,
\* 503 or 504.
TransientText(msg) ==
    \E needle \in {<<"t", "i", "m", "e", "o", "u", "t">>,
                   <<"n", "e", "t", "w", "o", "r", "k">>,
                   <<"c", "o", "n", "n", "e", "c", "t", "i", "o", "n">>,
                   <<"r", "a", "t", "e", " ", "l", "i", "m", "i", "t">>,
                   <<"4", "2", "9">>, <<"5", "0", "2">>, <<"5", "0", "3">>, <<"5", "0", "4">>} :
        Includes(ToLower(msg), needle)

InARun == llmPc \in {"v1", "v2", "create", "poll"}

\* C9: the create+poll sequence runs at most maxRetries + 1 times; run k+1
\* starts only after run k failed with a transient error and after a wait of
\* min(1000 * 2^k, 30000) ms; a non-transient failure (missing credential,
\* unresolvable model, ...) ends the call with an error at once, with no
\* backoff wait after it and no further run.
C9_BoundedBackoffRetry ==
    /\ [](/\ runs <= llmMaxRetries + 1
          /\ llmMaxRetries = 3 => runs <= 4
          /\ (InARun \/ llmPc = "backoff") => runs = attempt + 1
          /\ (InARun /\ attempt >= 1) => TransientText(lastError)
          /\ llmPc = "backoff" => TransientText(lastError) /\ attempt < llmMaxRetries
          /\ Len(llmWaits) = (IF llmPc = "backoff" THEN attempt + 1 ELSE attempt)
          /\ \A k \in 1..Len(llmWaits) :
                llmWaits[k] = (IF 1000 * Pow2(k - 1) < 30000 THEN 1000 * Pow2(k - 1) ELSE 30000)
          /\ (llmPc \in {"backoff", "threw"} /\ lastCause \in {"notoken", "noversion"}) =>
                llmPc = "threw"
          /\ (llmPc = "threw" /\ lastCause = "notoken") => runs = 0 /\ llmWaits = <<>>
          /\ (llmPc = "threw" /\ lastCause # "notoken") => runs = attempt + 1
          /\ (llmPc = "threw" /\ attempt < llmMaxRetries) => ~TransientText(lastError)
          /\ llmPc = "threw" => llmOut.kind = "error")
    /\ [][(llmPc \in {"threw", "returned"}) => (llmVars' = llmVars)]_vars

\* Every allowed run was used and the last backoff wait hit the 30 s cap.
C9_Witness ==
    /\ llmPc = "threw"
    /\ llmMaxRetries = MaxRetriesOpt
    /\ runs = MaxRetriesOpt + 1
    /\ llmWaits[3] = 4000
    /\ llmWaits[6] = 30000

\* The answers of the model-info endpoint that carry no version: an OK reply
\* with neither version field, a non-OK reply, a rejected request.
InfoYieldedNothing == {"nofield", "nonok", "rejected"}

\* C24: in every run the model-info endpoint is queried first and the
\* versions list only after the model-info answer carried no version; a
\* create request is sent only in a step that has just resolved a version,
\* and it carries that version; when neither
\* endpoint yields a version the call fails at once with the configuration
\* error, without a backoff and without a create request.
C24_VersionBeforeCreate ==
    /\ [](/\ verLog \in {<<>>, <<"info">>, <<"info", "list">>}
          /\ llmPc = "v1" => verLog = <<"info">> /\ infoAnswer = "none"
          /\ llmPc = "v2" => verLog = <<"info", "list">>
          /\ verLog = <<"info", "list">> => infoAnswer \in InfoYieldedNothing
          /\ (verLog = <<"info">> /\ llmPc # "v1") =>
                 infoAnswer \in {"latest", "default"}
          /\ llmPc = "create" =>
                 version \in {"latest_version.id", "default_version", "results[0].id"}
          /\ lastCause = "noversion" =>
                 /\ llmPc = "threw"
                 /\ llmOut = [kind |-> "error", text |-> MsgCallFailedPrefix \o MsgNoVersion])
    /\ [][/\ (creates' # creates) =>
                 /\ creates' = creates + 1
                 /\ llmPc \in {"v1", "v2"} /\ llmPc' = "create"
                 /\ version = VersionNull
                 /\ version' \in {"latest_version.id", "default_version", "results[0].id"}
          /\ (llmPc = "v2" /\ llmPc' # "create") =>
                 /\ llmPc' = "threw" /\ lastCause' = "noversion"
                 /\ creates' = creates /\ llmWaits' = llmWaits]_vars

\* The model-info reply carried no version field, the versions list did, and
\* the create request of a second run went out with the listed version.
C24_Witness ==
    /\ llmPc = "create"
    /\ runs = 2
    /\ infoAnswer = "nofield"
    /\ verLog = <<"info", "list">>
    /\ version = "results[0].id"
    /\ creates = 2

\* C10 (as claimed): an error raised by a timed-out request or by the polling
\* loop reaching its ceiling is classified transient, so while attempts
\* remain the call backs off and retries instead of failing.
C10_TimeoutsAreRetried ==
    (llmPc \in {"backoff", "threw"} /\ lastCause \in {"abort", "ceiling"}
        /\ attempt < llmMaxRetries) =>
        /\ TransientText(lastError)
        /\ llmPc = "backoff"

\* C11 (as claimed): in a run that holds a job id the status requests are
\* sent one per loop iteration, never more than the ceiling; the run ends
\* with a timeout error exactly when the ceiling was reached without a
\* terminal status, and a poll reporting succeeded ends the run with the
\* job's result, not with an error.
C11_PollLoopStopsWithResult ==
    /\ pollReqs <= pollCeiling
    /\ pollAttempts <= pollReqs /\ pollReqs <= pollAttempts + 1
    /\ lastCause = "ceiling" => pollReqs = pollCeiling /\ pollAttempts = pollCeiling
    /\ llmPc = "returned" => pollReqs = pollAttempts + 1
    /\ lastCause # "emptyoutput"

\* An empty output: null, the empty string or the empty list.
EmptyOutput(out) == out.kind = "null" \/ (out.kind \in {"string", "list"} /\ out.parts = <<>>)

\* The one string the claim gives for a succeeded job's output that is not
\* empty: the fragments of a list joined in order, a bare string itself, an
\* object's text, else its content, else its output.  The claim does not say
\* what an object with none of the three yields; it is taken as the code
\* gives it.
ClaimedText(out) ==
    IF out.kind = "list" THEN Join(out.parts)
    ELSE IF out.kind = "string" THEN out.parts
    ELSE IF out.parts[1] # <<>> THEN out.parts[1]
    ELSE IF out.parts[2] # <<>> THEN out.parts[2]
    ELSE IF out.parts[3] # <<>> THEN out.parts[3]
    ELSE <<"{", "}">>

\* C25 (as claimed): a status poll that reports succeeded ends the run with
\* one returned string and no error, whatever the output is: the joined
\* fragments, the bare string, or the object's text, else content, else
\* output; an empty output (null, "", []) also ends the run with a returned
\* string and is not turned into a timeout error.
C25_SucceededAlwaysReturnsText ==
    [][\A out \in OutputSamples :
          LlmPollSucceeded(out) =>
              /\ llmPc' = "returned"
              /\ lastError' = lastError
              /\ llmOut'.kind = "text"
              /\ ~EmptyOutput(out) => llmOut'.text = ClaimedText(out)]_vars

\* The URL carries a query string (a ? before any fragment).
HasQueryString(url) == IncludesChar(SubSeq(url, 1, FirstOf(url, 1, {"#"}) - 1), "?")

\* C17 (as claimed): the URL Structure check passes, and scrapeTechnicalSEO
\* reports "clean", exactly when the path matches ^/[a-z0-9-/]+$ without
\* regard to case and the URL has no query string.
C17_CleanIffPathAndNoQuery ==
    seoPc \in {"analyzed", "again"} =>
        LET clean == /\ MatchesCleanPath(ParseURL(snapshot.url).pathname)
                     /\ ~HasQueryString(snapshot.url)
        IN  /\ (seoResult.checks[6].status = "pass") <=> clean
            /\ (urlStructure(snapshot.url) = "clean") <=> clean

\* The points of the eight checks according to the table, in check order.
TablePoints(d) ==
    <<IF d.metaTitle.trim = 0 THEN 0
      ELSE IF d.metaTitle.len < 30 THEN 5 ELSE IF d.metaTitle.len > 60 THEN 7 ELSE 10,
      IF d.metaDescription.trim = 0 THEN 0
      ELSE IF d.metaDescription.len < 120 THEN 5
      ELSE IF d.metaDescription.len > 160 THEN 7 ELSE 10,
      IF d.h1.trim = 0 THEN 0 ELSE IF d.h1Count > 1 THEN 5 ELSE 10,
      IF d.schema = "null" THEN 0 ELSE 15,
      IF StartsWith(d.url, HttpsPrefix) THEN 10 ELSE 0,
      IF MatchesCleanPath(ParseURL(d.url).pathname) /\ ~HasQueryString(d.url) THEN 10 ELSE 5,
      IF d.description.trim = 0 THEN 0 ELSE IF d.description.trim < 200 THEN 5 ELSE 10,
      IF d.features = 0 THEN 3 ELSE IF d.features < 3 THEN 6 ELSE 10>>

\* C20 (as claimed): every check records the points of the table, raw is
\* their sum and never exceeds 85, the score is round(raw / 85 * 100) clamped
\* to 0..100, and the all-pass snapshot scores 100.
C20_ScoreFollowsTable ==
    seoPc \in {"analyzed", "again"} =>
        LET points == TablePoints(snapshot)
            raw == points[1] + points[2] + points[3] + points[4] + points[5] + points[6]
                   + points[7] + points[8]
        IN  /\ \A i \in 1..8 : seoResult.checks[i].score = points[i]
            /\ seoResult.raw = raw
            /\ raw <= 85
            /\ 170 * seoResult.score <= 200 * raw + 85
            /\ 200 * raw + 85 < 170 * (seoResult.score + 1)
            /\ seoResult.score \in 0..100
            /\ (snapshot = SnapshotAllPass) => (seoResult.score = 100)

----------------------------------------------------------------------------
(* JSON repair: properties                                                  *)

\* C12 (as claimed): parseJSONRobust applied to the standard serialization
\* of an object returns an object equal to it, whatever characters its
\* string values hold.
C12_RoundTrip ==
    (jsPc = "parsed" /\ jsCorruption = "none" /\ ~jsFenced) =>
        (jsOut.kind = "value" /\ jsOut.value = jsObj)

\* C13 (as claimed): when the serialization carries a trailing comma before
\* a closing brace or bracket, or a doubled colon after a key,
\* parseJSONRobust still returns an object equal to the original.
C13_RecoversKnownCorruptions ==
    (jsPc = "parsed" /\ jsCorruption \in {"comma", "colon"} /\ ~jsFenced) =>
        (jsOut.kind = "value" /\ jsOut.value = jsObj)

\* C14 (as claimed): when the extracted text parses as it is, or after the
\* removal of trailing commas only, parseJSONRobust returns that parse, so
\* no comment stripping or comma collapsing has touched the result.
C14_LeastDestructiveFirst ==
    jsPc = "parsed" =>
        LET span      == ExtractSpan(CleanFences(jsText))
            direct    == JSONParse(span.text)
            commaOnly == JSONParse(RemoveTrailingCommas(span.text, 1, {"}", "]"}, FALSE))
        IN  /\ (span.ok /\ direct.ok) => (jsOut.kind = "value" /\ jsOut.value = direct.val)
            /\ (span.ok /\ ~direct.ok /\ commaOnly.ok) =>
                  (jsOut.kind = "value" /\ jsOut.value = commaOnly.val)

\* C26 (as claimed): extractProductDataWithLLM returns data only for a reply
\* whose top-level JSON value is a plain object; a reply whose top-level value
\* is an array or a primitive makes the call fail.
C26_OnlyPlainObjectReturned ==
    (jsPc = "extracted" /\ jsObj.t # "obj") => jsOut.kind = "threw"

----------------------------------------------------------------------------
(* Error sanitizer: properties                                              *)

\* The text names a vendor, in any letter case.
NamesVendor(text) ==
    IncludesAny(ToLower(text),
                {"replicate", "gpt-5", "gpt-4", "openai", "pagespeed", "lighthouse"})

\* C15 (as claimed): whatever the raw message, neither the sanitized message
\* of sanitizeError nor the error text of createErrorResponse names a vendor.
C15_NoVendorName ==
    /\ erPc = "logged" => ~NamesVendor(erOut.message) /\ ~NamesVendor(erOut.userFriendly)
    /\ erPc = "responded" => ~NamesVendor(erResp.error)

ErrorCodes == {"TIMEOUT", "NETWORK_ERROR", "RATE_LIMIT", "AUTH_ERROR", "NOT_FOUND",
               "SERVER_ERROR", "PARSE_ERROR", "VALIDATION_ERROR", "UNKNOWN_ERROR"}

\* The user-facing message and the code name the same category.
SameCategory(userFriendly, code) ==
    /\ userFriendly = MsgTimeout    <=> code = "TIMEOUT"
    /\ userFriendly = MsgConnection <=> code = "NETWORK_ERROR"
    /\ userFriendly = MsgBusy       <=> code = "RATE_LIMIT"
    /\ userFriendly = MsgAuth       <=> code = "AUTH_ERROR"
    /\ userFriendly = MsgNotFound   <=> code = "NOT_FOUND"
    /\ userFriendly = MsgInternal   <=> code = "SERVER_ERROR"
    /\ code \in ErrorCodes

\* C30 (as claimed): for every raw message the code and the user-facing
\* message that sanitizeError and createErrorResponse return describe the
\* same category, and the code is one of the nine codes.
C30_CodeMatchesMessage ==
    /\ erPc = "logged" => SameCategory(erOut.userFriendly, erOut.code)
    /\ erPc = "responded" => SameCategory(erResp.error, erResp.code)

----------------------------------------------------------------------------
(* HTML scraper: properties                                                 *)

\* The nodes of a script in document order: a top-level object, then the
\* items of its @graph; the items of a top-level array.
DocNodes(block) ==
    IF block.shape = "object" THEN <<block.node>> \o block.items
    ELSE IF block.shape = "array" THEN block.items
    ELSE <<>>

RECURSIVE PageNodes(_)
PageNodes(blocks) ==
    IF blocks = <<>> THEN <<>> ELSE DocNodes(Head(blocks)) \o PageNodes(Tail(blocks))

\* The first Product node of a sequence of nodes, SchemaNull when it has none.
RECURSIVE FirstProduct(_)
FirstProduct(nodes) ==
    IF nodes = <<>> THEN SchemaNull
    ELSE IF Head(nodes).type = "Product" THEN Head(nodes)
    ELSE FirstProduct(Tail(nodes))

\* C27 (as claimed): the schema scrapeTechnicalSEO returns is the first
\* Product node of the page in document order, over top-level objects, arrays
\* and @graph lists; it is null exactly when no script holds a Product node.
C27_FirstProductInDocumentOrder ==
    ldPc = "done" => schema = FirstProduct(PageNodes(ldBlocks))

\* The four exclusion rules, in the words of the function's comments: a
\* blocklist keyword in the source, class, id or the parent's class or id; a
\* size that is known (both sides positive) with a side below 100px; a data
\* or base64 URI; an SVG source with a side that is below 200px or missing.
Blocklisted(el) ==
    \E text \in {el.src, el.class, el.id, el.parentClass, el.parentId} :
        IncludesAny(ToLower(text), excludePatterns)
SizeKnown(el) == Gt(el.width, 0) /\ Gt(el.height, 0)
VerySmall(el) == SizeKnown(el) /\ (Lt(el.width, 100) \/ Lt(el.height, 100))
DataUri(el)   == StartsWith(el.src, Chars("data:")) \/ Includes(el.src, Chars("base64"))
SmallSvg(el)  ==
    EndsWith(ToLower(el.src), Chars(".svg")) /\ (Lt(el.width, 200) \/ Lt(el.height, 200))
Excluded(el) == Blocklisted(el) \/ VerySmall(el) \/ DataUri(el) \/ SmallSvg(el)

\* The product allowlist matches the source.
Allowlisted(el) == IncludesAny(ToLower(el.src), productPatterns)

\* The two images of the specification's scenario.
LogoIcon    == Img("/icons/logo.svg", "", "", "", "", "", Dim(40), Dim(40))
WidgetFront == Img("/cdn/products/widget-front.jpg", "", "", "", "",
                   "Blue ceramic widget, front view", Dim(800), Dim(800))

\* C28: every exclusion rule wins over every inclusion rule, so an image that
\* is excluded by a rule is not a product image whatever the allowlist, its
\* container or its alt text say; the 40x40 logo is excluded and the 800x800
\* widget photo is included; an image that no rule excludes and whose size is
\* not known is included.
C28_ExclusionBeforeInclusion ==
    imPc = "classified" =>
        /\ Excluded(imgEl) => ~isProductImage
        /\ imgEl = LogoIcon => ~isProductImage
        /\ imgEl = WidgetFront => isProductImage
        /\ (~Excluded(imgEl) /\ ~SizeKnown(imgEl)) => isProductImage

\* An image whose source matches both the blocklist (icon) and the allowlist
\* (cdn, product), 800x800 in a product gallery with a descriptive alt text,
\* was classified.
C28_Witness ==
    /\ imPc = "classified"
    /\ imgEl = Img("/cdn/products/icon-cart.png", "", "", "product-gallery", "",
                   "Blue ceramic widget, front view", Dim(800), Dim(800))
    /\ Blocklisted(imgEl) /\ Allowlisted(imgEl)
    /\ ~isProductImage

----------------------------------------------------------------------------
(* Content enhancement: properties                                          *)

\* The member is present and carries a current value.
HasCurrent(member) == member.t = "obj" /\ member.current # "missing"

\* C18 (as claimed): when the reply parsed to an object the call returns,
\* and the result has summary, title, metaDescription, description and
\* features, a numeric contentQualityScore, and a current value in each of
\* title, metaDescription, description and features; the call fails only
\* for a reply that is not an object.
C18_ResultFullyPopulated ==
    /\ enPc = "threw" => enReply.kind # "object"
    /\ enPc = "returned" =>
          /\ ~MemberFalsy(enOut.summary)
          /\ HasCurrent(enOut.title)
          /\ HasCurrent(enOut.metaDescription)
          /\ HasCurrent(enOut.description)
          /\ HasCurrent(enOut.features)
          /\ enOut.contentQualityScore = "number"

----------------------------------------------------------------------------
(* Page extraction and analyze handler: properties                          *)

\* C16 (as claimed): for a valid request the three analyses are all started
\* and awaited, whatever fails and in whatever order; a failed branch is
\* replaced by its fallback and the handler answers with success.
C16_SettleAllThenSuccess ==
    /\ (hPc = "waiting" /\ Len(hOrder) > 0) =>
          \A branch \in {"performance", "enhancement"} :
              hBranch[branch] \in {"pending", "fulfilled", "rejected"}
    /\ (hPc = "responded" /\ ValidRequest) =>
          /\ hResp.status = 200 /\ hResp.success
          /\ hBranch.performance \in {"fulfilled", "rejected"}
          /\ hBranch.enhancement \in {"fulfilled", "rejected"}
          /\ hResp.performance = Substitute(hBranch.performance)
          /\ hResp.enhancement = Substitute(hBranch.enhancement)
          /\ hResp.seo \in {"value", "fallback"}

\* C29 (as claimed): in every success response the total and the potential
\* score are integers from 0 to 100, every sub-score of the breakdown is
\* within 0..100, the potential score is not below the total, and the
\* recommended score improvement is their difference and not negative.
C29_ScoresBoundedAndCoherent ==
    (hPc = "responded" /\ hResp.success) =>
        LET s == hResp.scores
        IN  /\ s.overallScore.total \in 0..100
            /\ s.potentialScore \in 0..100
            /\ \A part \in {"content", "seo", "performance", "mobile"} :
                  s.overallScore.breakdown[part] >= 0 /\ s.overallScore.breakdown[part] <= 100
            /\ s.potentialScore >= s.overallScore.total
            /\ s.scoreImprovement = s.potentialScore - s.overallScore.total
            /\ s.scoreImprovement >= 0

====
